---- MODULE Spec2Model ----
(***************************************************************************)
(* The step sequencer of PyVolcaDrum: modules/parts.py, class Parts.  The  *)
(* engine is a grid of Step widgets (six parts by step_count columns), a   *)
(* row of part check boxes, a QTimer and a playhead.  Every public or slot *)
(* method of Parts is an operator from an engine record to a Result (the   *)
(* engine it leaves, the signals it emitted, the exception it raised); the *)
(* actions apply these operators to the variables.  The host of the engine *)
(* is the Timeline of parts.py, which forwards note_on, and beside it      *)
(* stands one SelectControl of controls.py.                                *)
(***************************************************************************)
EXTENDS Integers, Sequences, FiniteSets, TLC

VARIABLES
    step_count,           \* Parts.__step_count
    bpm,                  \* Parts.__bpm
    current_step_number,  \* Parts.__current_step_number
    timer,                \* Parts.__timer: [interval, active]
    check_box,            \* the PART n check boxes, column 0 of the layout
    steps,                \* the Step widgets: steps[part][step]
    stored_values,        \* the document the host hands to Parts.restore
    emitted,              \* the signals the last operation emitted, in order
    raised,               \* the exception the last operation raised, or None
    calls,                \* the calls made so far, in a specification that records them
    connections,          \* how often the engine's note_on is connected to Timeline.note_on
    control               \* the SelectControl of a layer and its 'is-overridden' property

vars == <<step_count, bpm, current_step_number, timer, check_box, steps,
          stored_values, emitted, raised, calls, connections, control>>

-----------------------------------------------------------------------------
(* Program constants.                                                      *)

part_count == 6
min_step_count == 16
max_step_count == 1024
min_bpm == 2
\* a default measure of three beats
default_bpm_of_three == min_bpm + 1
default_bpm == 4
default_tempo == 60
min_stored_tempo == 60
max_stored_tempo == 360
minute_ms == 60000

part_numbers == 1..part_count

(* Bounds of the exploration.                                              *)

\* step_count is explored in min_step_count..MaxSteps
MaxSteps == 17
\* a recorded run of insertions and deletions is explored up to MaxCalls calls
MaxCalls == 2
\* live recording (enable_current_step) is explored while at most MaxContent
\* steps are checked
MaxContent == 1
\* a recorded run of ticks is explored up to MaxTicks ticks after the last
\* other operation
MaxTicks == 17
\* Timeline.restore on a document without 'step-count' is explored while the
\* engine's note_on has fewer than MaxConnections connections
MaxConnections == 2

-----------------------------------------------------------------------------
(* Python values.                                                          *)

None == "None"
EmptyDict == "{}"
\* two override payloads, e.g. {'layer1': {'level': 32}}
PayloadA == "A"
PayloadB == "B"

\* bool(overridden_values)
Truthy(v) == v \notin {None, EmptyDict}

NoException == "None"
ValueError == "ValueError"
ZeroDivisionError == "ZeroDivisionError"

Min(a, b) == IF a <= b THEN a ELSE b
Max(a, b) == IF a >= b THEN a ELSE b

Reverse(s) == [i \in 1..Len(s) |-> s[Len(s) + 1 - i]]

\* range(lo, hi + 1) as a list
Range(lo, hi) == [i \in 1..(IF hi >= lo THEN hi - lo + 1 ELSE 0) |-> lo + i - 1]

-----------------------------------------------------------------------------
(* modules/common.py                                                       *)

\* check_int_value(name, value, min_value, max_value) passes
check_int_value(value, min_value, max_value) ==
    min_value <= value /\ value <= max_value

-----------------------------------------------------------------------------
(* class Step                                                              *)

\* strong steps counted from the measure's last step
IsStrongOnMultiples(step_number, b) == (step_number % b) = 0

IsStrong(step_number, b) == ((step_number - 1) % b) = 0

\* Step.__init__: unchecked, no 'overridden-values' property
NewStep(is_strong) ==
    [checked |-> FALSE, overridden_values |-> None, is_strong |-> is_strong]

mark_as_strong(step, is_strong) == [step EXCEPT !.is_strong = is_strong]

set_overridden_values(step, overridden_values) ==
    [step EXCEPT !.overridden_values = overridden_values]

get_overridden_values(step) == step.overridden_values

setChecked(step, checked) == [step EXCEPT !.checked = checked]

-----------------------------------------------------------------------------
(* Signals.                                                                *)

note_on(part_number) == [signal |-> "note_on", args |-> <<part_number>>]
overridden_values_found(part_number, overridden_values) ==
    [signal |-> "overridden_values_found", args |-> <<part_number, overridden_values>>]
step_count_changed(new_step_count) ==
    [signal |-> "step_count_changed", args |-> <<new_step_count>>]
\* Selector.valueChanged and GroupOfControls.control_changed
valueChanged(value) == [signal |-> "valueChanged", args |-> <<value>>]
control_changed(control_number, value) ==
    [signal |-> "control_changed", args |-> <<control_number, value>>]

-----------------------------------------------------------------------------
(* class Parts: the engine record and the result of a call.                *)

Self ==
    [step_count |-> step_count, bpm |-> bpm,
     current_step_number |-> current_step_number,
     timer |-> timer, check_box |-> check_box, steps |-> steps]

Returned(e, signals) == [self |-> e, emitted |-> signals, raised |-> NoException]
Raised(e, signals, exception) == [self |-> e, emitted |-> signals, raised |-> exception]

\* Parts.__init__(initial_step_count, initial_bpm), arguments in range
Parts_init(initial_step_count, initial_bpm) ==
    [step_count |-> initial_step_count,
     bpm |-> initial_bpm,
     current_step_number |-> 1,
     timer |-> [interval |-> minute_ms \div default_tempo, active |-> FALSE],
     check_box |-> [part_number \in part_numbers |-> TRUE],
     steps |-> [part_number \in part_numbers |->
                  [step_number \in 1..initial_step_count |->
                      NewStep(IsStrong(step_number, initial_bpm))]]]

\* a step_at that checks step_number against the smallest step count
step_at_within_min_step_count(e, part_number, step_number) ==
    IF ~check_int_value(part_number, 1, part_count)
    THEN [returned |-> <<>>, raised |-> ValueError]
    ELSE IF ~check_int_value(step_number, 1, min_step_count)
    THEN [returned |-> <<>>, raised |-> ValueError]
    ELSE [returned |-> <<e.steps[part_number][step_number]>>, raised |-> NoException]

\* Parts.step_at(part_number, step_number): returned holds the Step it
\* returns, and nothing when it raises
Parts_step_at(e, part_number, step_number) ==
    IF ~check_int_value(part_number, 1, part_count)
    THEN [returned |-> <<>>, raised |-> ValueError]
    ELSE IF ~check_int_value(step_number, 1, e.step_count)
    THEN [returned |-> <<>>, raised |-> ValueError]
    ELSE [returned |-> <<e.steps[part_number][step_number]>>, raised |-> NoException]

\* Parts.tempo
tempo(e) == minute_ms \div e.timer.interval

\* Parts.__go_to(step_number), step_number in range
go_to(e, step_number) == [e EXCEPT !.current_step_number = step_number]

\* a stop that rewinds the playhead and leaves the timer running
stop_without_timer_stop(e) == go_to(e, 1)

\* a stop that does nothing to a timer that is not active
stop_when_active(e) ==
    IF e.timer.active
    THEN go_to([e EXCEPT !.timer.active = FALSE], 1)
    ELSE e

\* a stop that leaves the playhead where it is
stop_without_rewind(e) == [e EXCEPT !.timer.active = FALSE]

\* Parts.stop
Parts_stop(e) == go_to([e EXCEPT !.timer.active = FALSE], 1)

\* a play that starts from the first step
play_from_first_step(e) == go_to([e EXCEPT !.timer.active = TRUE], 1)

\* Parts.play
Parts_play(e) == [e EXCEPT !.timer.active = TRUE]

\* change_tempo rounding the interval up
change_tempo_rounding_up(e, new_tempo) ==
    IF new_tempo = 0
    THEN Raised(e, <<>>, ZeroDivisionError)
    ELSE Returned([e EXCEPT !.timer.interval =
                                (minute_ms + new_tempo - 1) \div new_tempo], <<>>)

\* Parts.change_tempo(new_tempo)
Parts_change_tempo(e, new_tempo) ==
    IF new_tempo = 0
    THEN Raised(e, <<>>, ZeroDivisionError)
    ELSE Returned([e EXCEPT !.timer.interval = minute_ms \div new_tempo], <<>>)

\* every column of the layout built anew by change_step_count
ResizedStepsCleared(e, new_step_count, new_bpm) ==
    [part_number \in part_numbers |->
        [step_number \in 1..new_step_count |->
            NewStep(IsStrong(step_number, new_bpm))]]

\* the widgets of the layout after change_step_count added or removed columns,
\* every step then marked strong or not by new_bpm
ResizedSteps(e, new_step_count, new_bpm) ==
    [part_number \in part_numbers |->
        [step_number \in 1..new_step_count |->
            mark_as_strong(
                IF step_number <= e.step_count
                THEN e.steps[part_number][step_number]
                ELSE NewStep(IsStrong(step_number, e.bpm)),
                IsStrong(step_number, new_bpm))]]

\* change_step_count without the stop() of a changed step count
change_step_count_without_stop(e, new_step_count, new_bpm) ==
    IF ~check_int_value(new_step_count, min_step_count, max_step_count)
    THEN Raised(e, <<>>, ValueError)
    ELSE IF ~check_int_value(new_bpm, min_bpm, min_step_count)
    THEN Raised(e, <<>>, ValueError)
    ELSE Returned([e EXCEPT !.steps = ResizedSteps(e, new_step_count, new_bpm),
                            !.step_count = new_step_count,
                            !.bpm = new_bpm],
                  IF new_step_count # e.step_count
                  THEN <<step_count_changed(new_step_count)>>
                  ELSE <<>>)

\* change_step_count stopping whenever it changes anything
change_step_count_always_stopping(e, new_step_count, new_bpm) ==
    IF ~check_int_value(new_step_count, min_step_count, max_step_count)
    THEN Raised(e, <<>>, ValueError)
    ELSE IF ~check_int_value(new_bpm, min_bpm, min_step_count)
    THEN Raised(e, <<>>, ValueError)
    ELSE IF new_step_count = e.step_count /\ new_bpm = e.bpm
    THEN Returned(e, <<>>)
    ELSE Returned(
            [Parts_stop(e) EXCEPT !.steps = ResizedSteps(e, new_step_count, new_bpm),
                                  !.step_count = new_step_count,
                                  !.bpm = new_bpm],
            IF new_step_count # e.step_count
            THEN <<step_count_changed(new_step_count)>>
            ELSE <<>>)

\* change_step_count checking new_bpm after it has stopped the timer
change_step_count_checking_bpm_late(e, new_step_count, new_bpm) ==
    IF ~check_int_value(new_step_count, min_step_count, max_step_count)
    THEN Raised(e, <<>>, ValueError)
    ELSE LET step_count_change_requested == new_step_count # e.step_count
             stopped == IF step_count_change_requested THEN Parts_stop(e) ELSE e
         IN IF ~check_int_value(new_bpm, min_bpm, min_step_count)
            THEN Raised(stopped, <<>>, ValueError)
            ELSE IF new_step_count = e.step_count /\ new_bpm = e.bpm
            THEN Returned(e, <<>>)
            ELSE Returned(
                    [stopped EXCEPT !.steps = ResizedSteps(e, new_step_count, new_bpm),
                                    !.step_count = new_step_count,
                                    !.bpm = new_bpm],
                    IF step_count_change_requested
                    THEN <<step_count_changed(new_step_count)>>
                    ELSE <<>>)

\* change_step_count emitting step_count_changed whenever it changes anything
change_step_count_always_emitting(e, new_step_count, new_bpm) ==
    IF ~check_int_value(new_step_count, min_step_count, max_step_count)
    THEN Raised(e, <<>>, ValueError)
    ELSE IF ~check_int_value(new_bpm, min_bpm, min_step_count)
    THEN Raised(e, <<>>, ValueError)
    ELSE IF new_step_count = e.step_count /\ new_bpm = e.bpm
    THEN Returned(e, <<>>)
    ELSE LET step_count_change_requested == new_step_count # e.step_count
             stopped == IF step_count_change_requested THEN Parts_stop(e) ELSE e
         IN Returned(
                [stopped EXCEPT !.steps = ResizedSteps(e, new_step_count, new_bpm),
                                !.step_count = new_step_count,
                                !.bpm = new_bpm],
                <<step_count_changed(new_step_count)>>)

\* Parts.change_step_count(new_step_count, new_bpm)
Parts_change_step_count(e, new_step_count, new_bpm) ==
    IF ~check_int_value(new_step_count, min_step_count, max_step_count)
    THEN Raised(e, <<>>, ValueError)
    ELSE IF ~check_int_value(new_bpm, min_bpm, min_step_count)
    THEN Raised(e, <<>>, ValueError)
    ELSE IF new_step_count = e.step_count /\ new_bpm = e.bpm
    THEN Returned(e, <<>>)
    ELSE LET step_count_change_requested == new_step_count # e.step_count
             stopped == IF step_count_change_requested THEN Parts_stop(e) ELSE e
         IN Returned(
                [stopped EXCEPT !.steps = ResizedSteps(e, new_step_count, new_bpm),
                                !.step_count = new_step_count,
                                !.bpm = new_bpm],
                IF step_count_change_requested
                THEN <<step_count_changed(new_step_count)>>
                ELSE <<>>)

\* src_step_range never reversed
src_step_range_ascending(e_step_count, position, distance) ==
    Range(position, e_step_count + (IF distance < 0 THEN -distance ELSE 0))

\* src_step_range of Parts.__move_steps
src_step_range(e_step_count, position, distance) ==
    LET ascending == Range(position,
                           e_step_count + (IF distance < 0 THEN -distance ELSE 0))
    IN IF distance > 0 THEN Reverse(ascending) ELSE ascending

\* a move_step that moves the Step itself, with its strong mark
move_step_with_mark(row, e_step_count, src_step_number, dst_step_number) ==
    LET src_exists == 1 <= src_step_number /\ src_step_number <= e_step_count
        dst_exists == 1 <= dst_step_number /\ dst_step_number <= e_step_count
        written ==
            IF dst_exists
            THEN [row EXCEPT ![dst_step_number] =
                    IF src_exists THEN row[src_step_number] ELSE NewStep(FALSE)]
            ELSE row
    IN IF src_exists
       THEN [written EXCEPT ![src_step_number] =
                set_overridden_values(setChecked(@, FALSE), None)]
       ELSE written

\* move_step(src_step_number, dst_step_number) of Parts.__move_steps, on the
\* row of one part
move_step(row, e_step_count, src_step_number, dst_step_number) ==
    LET src_exists == 1 <= src_step_number /\ src_step_number <= e_step_count
        dst_exists == 1 <= dst_step_number /\ dst_step_number <= e_step_count
        written ==
            IF dst_exists
            THEN [row EXCEPT ![dst_step_number] =
                    set_overridden_values(
                        setChecked(@, IF src_exists THEN row[src_step_number].checked
                                                    ELSE FALSE),
                        IF src_exists THEN get_overridden_values(row[src_step_number])
                                      ELSE None)]
            ELSE row
    IN IF src_exists
       THEN [written EXCEPT ![src_step_number] =
                set_overridden_values(setChecked(@, FALSE), None)]
       ELSE written

RECURSIVE MoveRow(_, _, _, _, _)
\* the loop of Parts.__move_steps over src_step_range, from its i-th element on
MoveRow(row, e_step_count, range, distance, i) ==
    IF i > Len(range)
    THEN row
    ELSE MoveRow(move_step(row, e_step_count, range[i], range[i] + distance),
                 e_step_count, range, distance, i + 1)

\* Parts.__move_steps(position, distance)
move_steps(e, position, distance) ==
    [e EXCEPT !.steps =
        [part_number \in part_numbers |->
            MoveRow(e.steps[part_number], e.step_count,
                    src_step_range(e.step_count, position, distance), distance, 1)]]

\* insert_steps adding one step whatever steps_to_insert is
insert_steps_adding_one(e, position, steps_to_insert) ==
    LET changed == Parts_change_step_count(e, e.step_count + 1, e.bpm)
    IN IF changed.raised # NoException
       THEN changed
       ELSE Returned(move_steps(changed.self, position + 1, steps_to_insert),
                     changed.emitted)

\* insert_steps moving the steps from position on, not from position + 1 on
insert_steps_moving_position(e, position, steps_to_insert) ==
    LET changed == Parts_change_step_count(e, e.step_count + steps_to_insert, e.bpm)
    IN IF changed.raised # NoException
       THEN changed
       ELSE Returned(move_steps(changed.self, position, steps_to_insert),
                     changed.emitted)

\* insert_steps stopping the engine before it changes the step count
insert_steps_stopping_first(e, position, steps_to_insert) ==
    LET changed == Parts_change_step_count(Parts_stop(e),
                                           e.step_count + steps_to_insert, e.bpm)
    IN IF changed.raised # NoException
       THEN changed
       ELSE Returned(move_steps(changed.self, position + 1, steps_to_insert),
                     changed.emitted)

\* Parts.__insert_steps(position, steps_to_insert)
Parts_insert_steps(e, position, steps_to_insert) ==
    LET changed == Parts_change_step_count(e, e.step_count + steps_to_insert, e.bpm)
    IN IF changed.raised # NoException
       THEN changed
       ELSE Returned(move_steps(changed.self, position + 1, steps_to_insert),
                     changed.emitted)

\* delete_steps moving the steps from position on, not from
\* position + steps_to_delete on
delete_steps_moving_position(e, position, steps_to_delete) ==
    LET moved == move_steps(e, position, -steps_to_delete)
    IN Parts_change_step_count(moved, moved.step_count - steps_to_delete, moved.bpm)

\* Parts.__delete_steps(position, steps_to_delete)
Parts_delete_steps(e, position, steps_to_delete) ==
    LET moved == move_steps(e, position + steps_to_delete, -steps_to_delete)
    IN Parts_change_step_count(moved, moved.step_count - steps_to_delete, moved.bpm)

\* enable_current_step checking the step whether or not the timer is active
enable_current_step_when_stopped(e, part_number, remaining_time) ==
    IF ~check_int_value(part_number, 1, part_count)
    THEN Raised(e, <<>>, ValueError)
    ELSE LET insert_to_the_previous_step == 2 * remaining_time > e.timer.interval
             step_number ==
                 IF insert_to_the_previous_step
                 THEN (IF e.current_step_number = 1 THEN e.step_count
                                                    ELSE e.current_step_number - 1)
                 ELSE e.current_step_number
         IN Returned([e EXCEPT !.steps[part_number][step_number] = setChecked(@, TRUE)],
                     <<note_on(part_number)>>)

\* Parts.enable_current_step(part_number); remaining_time is what
\* QTimer.remainingTime() returns at the call
Parts_enable_current_step(e, part_number, remaining_time) ==
    IF ~check_int_value(part_number, 1, part_count)
    THEN Raised(e, <<>>, ValueError)
    ELSE IF ~e.timer.active
    THEN Returned(e, <<note_on(part_number)>>)
    ELSE LET insert_to_the_previous_step == 2 * remaining_time > e.timer.interval
             step_number ==
                 IF insert_to_the_previous_step
                 THEN (IF e.current_step_number = 1 THEN e.step_count
                                                    ELSE e.current_step_number - 1)
                 ELSE e.current_step_number
         IN Returned([e EXCEPT !.steps[part_number][step_number] = setChecked(@, TRUE)],
                     <<note_on(part_number)>>)

\* Parts.__process_dot_click, the sender being the dot of step_number
Parts_process_dot_click(e, step_number) ==
    IF ~check_int_value(step_number, 1, e.step_count)
    THEN Raised(e, <<>>, ValueError)
    ELSE Returned(go_to(e, step_number), <<>>)

\* what the loop of Parts.__do_step emits for one part
StepSignals(e, part_number) ==
    LET step == e.steps[part_number][e.current_step_number]
        overridden_values == get_overridden_values(step)
    IN (IF Truthy(overridden_values)
        THEN <<overridden_values_found(part_number, overridden_values)>>
        ELSE <<>>)
       \o (IF step.checked THEN <<note_on(part_number)>> ELSE <<>>)

RECURSIVE DoStepSignalsOfEveryPart(_, _)
\* the loop of __do_step over every part, enabled or not
DoStepSignalsOfEveryPart(e, part_number) ==
    IF part_number > part_count
    THEN <<>>
    ELSE StepSignals(e, part_number) \o DoStepSignalsOfEveryPart(e, part_number + 1)

RECURSIVE DoStepSignals(_, _)
\* the loop of Parts.__do_step over the enabled parts from part_number on
DoStepSignals(e, part_number) ==
    IF part_number > part_count
    THEN <<>>
    ELSE (IF e.check_box[part_number] THEN StepSignals(e, part_number) ELSE <<>>)
         \o DoStepSignals(e, part_number + 1)

\* a tick that wraps one step before the last one
do_step_wrapping_early(e) ==
    Returned(go_to(e, IF e.current_step_number >= e.step_count - 1
                      THEN 1
                      ELSE e.current_step_number + 1),
             DoStepSignals(e, 1))

\* Parts.__do_step
Parts_do_step(e) ==
    Returned(go_to(e, IF e.current_step_number = e.step_count
                      THEN 1
                      ELSE e.current_step_number + 1),
             DoStepSignals(e, 1))

-----------------------------------------------------------------------------
(* Documents: a Python dict is a function on its keys; a list is a         *)
(* sequence.  The key of a step in 'overridden-controls' is an int (as     *)
(* store writes it) or the decimal string of one (as json.loads reads it). *)

\* f'part{part_number}'
PartName(part_number) ==
    <<"part1", "part2", "part3", "part4", "part5", "part6">>[part_number]

IntKey(step_number) == [type |-> "int", value |-> step_number]
StrKey(step_number) == [type |-> "str", value |-> step_number]
\* a str key that is not a numeral
WordKey(word) == [type |-> "word", value |-> word]
\* int(key) returns for an int and for the str of a numeral, and else raises
IsNumeral(key) == key.type \in {"int", "str"}
\* int(key)
int(key) == key.value

\* d.get(key, default)
Get(d, key, default) == IF key \in DOMAIN d THEN d[key] ELSE default

Elements(list) == {list[i] : i \in 1..Len(list)}

\* the enabled steps of a part listed from the last step to the first
StoredEnabledStepsDescending(e, part_number) ==
    SelectSeq(Reverse(Range(1, e.step_count)),
              LAMBDA step_number : e.steps[part_number][step_number].checked)

\* the steps of a part that store appends to 'enabled-steps'
StoredEnabledSteps(e, part_number) ==
    SelectSeq(Range(1, e.step_count),
              LAMBDA step_number : e.steps[part_number][step_number].checked)

\* the steps of a part that store enters in 'overridden-controls'
StoredOverriddenControls(e, part_number) ==
    [key \in {IntKey(step_number) : step_number \in
                 {n \in 1..e.step_count :
                     Truthy(get_overridden_values(e.steps[part_number][n]))}}
        |-> get_overridden_values(e.steps[part_number][int(key)])]

\* what Parts.store raises: it reads Parts.tempo, which divides by the
\* timer's interval
Parts_store_raised(e) ==
    IF e.timer.interval = 0 THEN ZeroDivisionError ELSE NoException

\* Parts.store, the timer's interval not being 0
Parts_store(e) ==
    LET enabled_steps ==
            [name \in {PartName(part_number) : part_number \in
                          {n \in part_numbers : StoredEnabledSteps(e, n) # <<>>}}
                |-> StoredEnabledSteps(e, CHOOSE n \in part_numbers : PartName(n) = name)]
        overridden_controls ==
            [name \in {PartName(part_number) : part_number \in
                          {n \in part_numbers :
                              DOMAIN StoredOverriddenControls(e, n) # {}}}
                |-> StoredOverriddenControls(e, CHOOSE n \in part_numbers : PartName(n) = name)]
        keys == {"step-count", "beats-per-measure", "tempo", "enabled-parts"}
                \cup (IF DOMAIN enabled_steps # {} THEN {"enabled-steps"} ELSE {})
                \cup (IF DOMAIN overridden_controls # {} THEN {"overridden-controls"} ELSE {})
    IN [key \in keys |->
          CASE key = "step-count" -> e.step_count
            [] key = "beats-per-measure" -> e.bpm
            [] key = "tempo" -> Min(max_stored_tempo, Max(min_stored_tempo, tempo(e)))
            [] key = "enabled-parts" ->
                   SelectSeq(Range(1, part_count), LAMBDA n : e.check_box[n])
            [] key = "enabled-steps" -> enabled_steps
            [] key = "overridden-controls" -> overridden_controls]

\* the keys of 'overridden-controls' below 'step-count'
RestoredKeysBelowStepCount(d, part_number) ==
    {key \in DOMAIN Get(Get(d, "overridden-controls", <<>>), PartName(part_number), <<>>) :
        int(key) < d["step-count"]}

\* the keys of a part's 'overridden-controls' that restore does not filter out
RestoredKeys(d, part_number) ==
    {key \in DOMAIN Get(Get(d, "overridden-controls", <<>>), PartName(part_number), <<>>) :
        int(key) <= d["step-count"]}

\* the entries of 'enabled-steps' below 'step-count'
RestoredStepsBelowStepCount(d, part_number) ==
    {step_number \in
        Elements(Get(Get(d, "enabled-steps", <<>>), PartName(part_number), <<>>)) :
        step_number < d["step-count"]}

\* the entries of a part's 'enabled-steps' that restore does not filter out
RestoredSteps(d, part_number) ==
    {step_number \in
        Elements(Get(Get(d, "enabled-steps", <<>>), PartName(part_number), <<>>)) :
        step_number <= d["step-count"]}

\* Parts.restore(stored_values): parts is <<>> when it returns None or raises,
\* and else holds the engine it returns.  No two keys of a part's
\* 'overridden-controls' name the same step.
Parts_restore(d) ==
    IF "step-count" \notin DOMAIN d
    THEN [parts |-> <<>>, raised |-> NoException]
    ELSE IF ~check_int_value(d["step-count"], min_step_count, max_step_count)
    THEN [parts |-> <<>>, raised |-> ValueError]
    ELSE IF ~check_int_value(Get(d, "beats-per-measure", default_bpm), min_bpm, min_step_count)
    THEN [parts |-> <<>>, raised |-> ValueError]
    ELSE IF Get(d, "tempo", default_tempo) = 0
    THEN [parts |-> <<>>, raised |-> ZeroDivisionError]
    ELSE IF \E part_number \in part_numbers :
              \/ \E key \in DOMAIN Get(Get(d, "overridden-controls", <<>>),
                                      PartName(part_number), <<>>) : ~IsNumeral(key)
              \/ \E step_number \in RestoredSteps(d, part_number) : step_number < 1
              \/ \E key \in RestoredKeys(d, part_number) : int(key) < 1
    THEN [parts |-> <<>>, raised |-> ValueError]
    ELSE LET parts == Parts_init(d["step-count"], Get(d, "beats-per-measure", default_bpm))
             enabled_parts == Elements(Get(d, "enabled-parts", Range(1, part_count)))
             overridden_controls(part_number) ==
                 Get(Get(d, "overridden-controls", <<>>), PartName(part_number), <<>>)
         IN [raised |-> NoException, parts |-> <<
               [parts EXCEPT
                  !.timer.interval = minute_ms \div Get(d, "tempo", default_tempo),
                  !.check_box = [part_number \in part_numbers |->
                                    part_number \in enabled_parts],
                  !.steps = [part_number \in part_numbers |->
                      [step_number \in 1..parts.step_count |->
                          LET step == parts.steps[part_number][step_number]
                              checked == setChecked(step,
                                  step_number \in RestoredSteps(d, part_number))
                              keys == {key \in RestoredKeys(d, part_number) :
                                          int(key) = step_number}
                          IN IF keys = {}
                             THEN checked
                             ELSE set_overridden_values(checked,
                                    overridden_controls(part_number)[CHOOSE key \in keys : TRUE])]]]
               >>]

-----------------------------------------------------------------------------
(* controls.py: class SelectControl, three exclusive rows of buttons (five  *)
(* sound sources, three pitch modulators, three envelope generators) whose *)
(* combination is the value of MIDI control SELECT1, and the slots of the  *)
(* GroupOfControls that owns it.  A control is a record of its value, the  *)
(* checked id of each row and its 'is-overridden' property.                *)

\* the control number of SELECT1, LayerControls.__init__ of layer 1
select_control_number == 14 + 1 - 1

sound_source_count == 5
pitch_modulator_count == 3
amplitude_envelope_generator_count == 3

\* SelectControl(control_number): the first button of each row is checked,
\* Selector._value is 0, 'is-overridden' is not set
SelectControl_init ==
    [value |-> 0,
     sound_source |-> 0,
     pitch_modulator |-> 0,
     amplitude_envelope_generator |-> 0,
     is_overridden |-> FALSE]

\* SelectControl.__combination_index
combination_index(c) ==
    c.sound_source * 9 + c.pitch_modulator * 3 + c.amplitude_envelope_generator

\* SelectControl.__max_combination_count_index
max_combination_count_index ==
    sound_source_count * pitch_modulator_count * amplitude_envelope_generator_count - 1

\* a normalized combination index rounded down
normalized_combination_index_rounded_down(c) ==
    (127 * combination_index(c)) \div max_combination_count_index

\* SelectControl.__normalized_combination_index
normalized_combination_index(c) ==
    (127 * combination_index(c) + max_combination_count_index - 1)
        \div max_combination_count_index

\* GroupOfControls._process_control_change, the slot of valueChanged: the
\* control that emitted signals is marked and control_changed is emitted
\* for each valueChanged
GroupOfControls_process_control_change(c, signals) ==
    IF signals = <<>>
    THEN [self |-> c, emitted |-> <<>>]
    ELSE [self |-> [c EXCEPT !.is_overridden = TRUE],
          emitted |-> signals \o <<control_changed(select_control_number, c.value)>>]

\* SelectControl.setValue(value), with the slot that valueChanged runs
SelectControl_setValue(c, value) ==
    IF value = c.value
    THEN [self |-> c, emitted |-> <<>>]
    ELSE LET combination_index_of_value ==
                 (value * max_combination_count_index) \div 127
         IN GroupOfControls_process_control_change(
                [c EXCEPT !.amplitude_envelope_generator =
                              combination_index_of_value % 3,
                          !.pitch_modulator =
                              (combination_index_of_value \div 3) % 3,
                          !.sound_source =
                              (combination_index_of_value \div 9) % 5,
                          !.value = value],
                <<valueChanged(value)>>)

\* the user clicks button id of a row: the exclusive QButtonGroup checks it
\* and unchecks the other, and Selector._process_control_change runs for
\* the button that became checked
SelectControl_click(c, row, id) ==
    IF c[row] = id
    THEN [self |-> c, emitted |-> <<>>]
    ELSE LET toggled == [c EXCEPT ![row] = id]
         IN SelectControl_setValue(toggled, normalized_combination_index(toggled))

\* a _restore_control that never emits for a value the control already has
restore_control_ignoring_force(c, value, is_overridden, force) ==
    LET restored ==
            IF c.value # value
            THEN SelectControl_setValue(c, value)
            ELSE [self |-> c, emitted |-> <<>>]
    IN [self |-> [restored.self EXCEPT !.is_overridden = is_overridden],
        emitted |-> restored.emitted]

\* GroupOfControls._restore_control(control, value, is_overridden, force)
GroupOfControls_restore_control(c, value, is_overridden, force) ==
    LET restored ==
            IF c.value # value
            THEN SelectControl_setValue(c, value)
            ELSE IF force
            THEN GroupOfControls_process_control_change(c, <<valueChanged(c.value)>>)
            ELSE [self |-> c, emitted |-> <<>>]
    IN [self |-> [restored.self EXCEPT !.is_overridden = is_overridden],
        emitted |-> restored.emitted]

\* Timeline.note_on: what the host forwards of the signals of the engine,
\* each note_on once for every connection of Parts.note_on to Timeline.note_on
RECURSIVE Timeline_note_on(_, _)
Timeline_note_on(signals, connected) ==
    IF signals = <<>>
    THEN <<>>
    ELSE (IF Head(signals).signal = "note_on"
          THEN [i \in 1..connected |-> Head(signals)]
          ELSE <<>>) \o Timeline_note_on(Tail(signals), connected)

-----------------------------------------------------------------------------
(* The actions: one per method, slot or user gesture.                      *)

\* the steps that are checked
CheckedCount(e) ==
    Cardinality({c \in part_numbers \X (1..e.step_count) : e.steps[c[1]][c[2]].checked})

\* the variables after a call that left r
Commit(r) ==
    /\ step_count' = r.self.step_count
    /\ bpm' = r.self.bpm
    /\ current_step_number' = r.self.current_step_number
    /\ timer' = r.self.timer
    /\ check_box' = r.self.check_box
    /\ steps' = r.self.steps
    /\ emitted' = r.emitted
    /\ raised' = r.raised
    /\ UNCHANGED <<stored_values, connections, control>>

\* the user clicks the Step of (part_number, step_number), a checkable button
click_step(part_number, step_number) ==
    Commit(Returned([Self EXCEPT !.steps[part_number][step_number] =
                        setChecked(@, ~@.checked)], <<>>))

\* the host sets or clears the override of a step it got from step_at
override_step(part_number, step_number, overridden_values) ==
    Commit(Returned([Self EXCEPT !.steps[part_number][step_number] =
                        set_overridden_values(@, overridden_values)], <<>>))

\* a click on the check box of a part that also clears the steps of the part
click_check_box_clearing(part_number) ==
    Commit(Returned([Self EXCEPT
                        !.check_box[part_number] = ~@,
                        !.steps[part_number] =
                            [step_number \in 1..step_count |->
                                NewStep(@[step_number].is_strong)]], <<>>))

\* the user clicks the check box of a part
click_check_box(part_number) ==
    Commit(Returned([Self EXCEPT !.check_box[part_number] = ~@], <<>>))

change_tempo(new_tempo) ==
    Commit(Parts_change_tempo(Self, new_tempo))

change_step_count(new_step_count, new_bpm) ==
    Commit(Parts_change_step_count(Self, new_step_count, new_bpm))

insert_steps(position, steps_to_insert) ==
    Commit(Parts_insert_steps(Self, position, steps_to_insert))

delete_steps(position, steps_to_delete) ==
    Commit(Parts_delete_steps(Self, position, steps_to_delete))

play ==
    Commit(Returned(Parts_play(Self), <<>>))

stop ==
    Commit(Returned(Parts_stop(Self), <<>>))

enable_current_step(part_number, remaining_time) ==
    /\ timer.active => CheckedCount(Self) < MaxContent
    /\ Commit(Parts_enable_current_step(Self, part_number, remaining_time))

\* the host asks for a Step; what step_at returns is left to the caller
step_at(part_number, step_number) ==
    Commit([self |-> Self, emitted |-> <<>>,
            raised |-> Parts_step_at(Self, part_number, step_number).raised])

process_dot_click(step_number) ==
    Commit(Parts_process_dot_click(Self, step_number))

\* the timer's timeout, which fires only while the timer is active
do_step ==
    /\ timer.active
    /\ Commit(Parts_do_step(Self))

\* a restore that replaces the host's engine by Parts() when Parts.restore
\* returns None
restore_constructing ==
    LET r == Parts_restore(stored_values)
        e == IF r.parts = <<>>
             THEN Parts_init(min_step_count, default_bpm)
             ELSE r.parts[1]
    IN /\ step_count' = e.step_count
       /\ bpm' = e.bpm
       /\ current_step_number' = e.current_step_number
       /\ timer' = e.timer
       /\ check_box' = e.check_box
       /\ steps' = e.steps
       /\ connections' = IF r.raised = NoException THEN 1 ELSE connections
       /\ emitted' = <<>>
       /\ raised' = r.raised
       /\ UNCHANGED <<stored_values, control>>

\* Timeline.restore(stored_values): the engine that Parts.restore returns
\* replaces the host's, and note_on of the engine the host then holds, new
\* or kept, is connected to Timeline.note_on.  Parts.restore raising, the
\* call ends there.
restore ==
    LET r == Parts_restore(stored_values)
    IN /\ (r.parts = <<>> /\ r.raised = NoException) => connections < MaxConnections
       /\ IF r.parts = <<>>
          THEN UNCHANGED <<step_count, bpm, current_step_number, timer, check_box, steps>>
          ELSE /\ step_count' = r.parts[1].step_count
               /\ bpm' = r.parts[1].bpm
               /\ current_step_number' = r.parts[1].current_step_number
               /\ timer' = r.parts[1].timer
               /\ check_box' = r.parts[1].check_box
               /\ steps' = r.parts[1].steps
       /\ connections' = IF r.raised # NoException THEN connections
                         ELSE IF r.parts = <<>> THEN connections + 1
                         ELSE 1
       /\ emitted' = <<>>
       /\ raised' = r.raised
       /\ UNCHANGED <<stored_values, control>>

\* the user clicks button id of a row of the SelectControl
click_button(row, id) ==
    LET r == SelectControl_click(control, row, id)
    IN /\ control' = r.self
       /\ emitted' = r.emitted
       /\ raised' = NoException
       /\ UNCHANGED <<step_count, bpm, current_step_number, timer, check_box,
                      steps, stored_values, connections>>

\* GroupOfControls.restore hands the SelectControl to _restore_control
restore_control(value, is_overridden, force) ==
    LET r == GroupOfControls_restore_control(control, value, is_overridden, force)
    IN /\ control' = r.self
       /\ emitted' = r.emitted
       /\ raised' = NoException
       /\ UNCHANGED <<step_count, bpm, current_step_number, timer, check_box,
                      steps, stored_values, connections>>

\* the host holds the engine e
Holds(e) ==
    /\ step_count = e.step_count
    /\ bpm = e.bpm
    /\ current_step_number = e.current_step_number
    /\ timer = e.timer
    /\ check_box = e.check_box
    /\ steps = e.steps

\* Timeline.__init__ has connected note_on of its engine once, and the
\* SelectControl is as constructed
Hosted ==
    /\ connections = 1
    /\ control = SelectControl_init

\* the host holding a Parts() and a document to restore from
Constructed(documents) ==
    /\ stored_values \in documents
    /\ Holds(Parts_init(min_step_count, default_bpm))
    /\ Hosted
    /\ emitted = <<>>
    /\ raised = NoException
    /\ calls = <<>>

\* the host holding the engine that Parts.restore returned for a document
Restored(documents) ==
    /\ stored_values \in documents
    /\ Holds(Parts_restore(stored_values).parts[1])
    /\ Hosted
    /\ emitted = <<>>
    /\ raised = NoException
    /\ calls = <<>>

\* the largest step count the dialog of a Dot accepts
max_dialog_count == 128

\* the step counts the user enters in the dialog of a Dot
DialogCounts == {1, 2}

-----------------------------------------------------------------------------
(* Spec: playback interleaved with every operation that moves the playhead *)
(* or changes the number of columns.                                       *)

\* the tempos the user sets
Tempos == {60, 360}
\* what QTimer.remainingTime() may return: the ends of the interval
RemainingTimes == {0, timer.interval}
\* the step counts the user sets
StepCounts == min_step_count..MaxSteps
\* the dots whose menu the user opens: the first, the last and the playhead's
MenuDots == {1, current_step_number, step_count}

\* the step counts the user enters in the dialog of these dots
MenuCounts == {1}

Documents == {"step-count" :> 17}

Init == Constructed(Documents)

Next ==
    \/ play /\ UNCHANGED calls
    \/ stop /\ UNCHANGED calls
    \/ do_step /\ UNCHANGED calls
    \/ \E step_number \in MenuDots :
          process_dot_click(step_number) /\ UNCHANGED calls
    \/ \E new_tempo \in Tempos :
          change_tempo(new_tempo) /\ UNCHANGED calls
    \/ \E new_step_count \in StepCounts :
          change_step_count(new_step_count, bpm) /\ UNCHANGED calls
    \/ \E step_number \in MenuDots, count \in MenuCounts :
          step_count + count <= MaxSteps /\ insert_steps(step_number - 1, count) /\ UNCHANGED calls
    \/ \E step_number \in MenuDots, count \in MenuCounts :
          step_count + count <= MaxSteps /\ insert_steps(step_number, count) /\ UNCHANGED calls
    \/ \E step_number \in MenuDots, count \in MenuCounts :
          delete_steps(step_number, count) /\ UNCHANGED calls
    \/ \E remaining_time \in RemainingTimes :
          enable_current_step(1, remaining_time) /\ UNCHANGED calls
    \/ restore /\ UNCHANGED calls

Spec == Init /\ [][Next]_vars

-----------------------------------------------------------------------------
(* SpecEdit: insertions and deletions on restored engines, the calls       *)
(* recorded.                                                               *)

Call(name, position, count) == [name |-> name, position |-> position, count |-> count]

\* restored_parts() of test_insert_delete_steps
TestDocument(enabled_steps) ==
    ("step-count" :> 16) @@ ("beats-per-measure" :> 4)
        @@ ("enabled-steps" :> ("part1" :> enabled_steps))

\* the documents of tests/test_parts.py and two with overrides
EditDocuments ==
    { TestDocument(<<1, 5, 9, 13>>),
      TestDocument(Range(1, 16)),
      ("step-count" :> 16)
          @@ ("enabled-steps" :> (("part2" :> <<2, 16>>) @@ ("part6" :> <<5>>)))
          @@ ("overridden-controls" :>
                (("part2" :> ((IntKey(2) :> PayloadA) @@ (IntKey(3) :> PayloadB)))
                 @@ ("part6" :> (IntKey(16) :> PayloadA)))),
      ("step-count" :> 18)
          @@ ("enabled-steps" :> (("part1" :> <<1, 17, 18>>) @@ ("part3" :> <<6>>)))
          @@ ("overridden-controls" :>
                ("part1" :> ((StrKey(1) :> EmptyDict) @@ (StrKey(4) :> PayloadB)
                             @@ (StrKey(18) :> PayloadA)))) }

\* the dots whose menu the user opens
EditDots == {1, 2, 5, step_count - 1, step_count}

InitEdit == Restored(EditDocuments)

NextEdit ==
    \/ \E step_number \in EditDots, count \in DialogCounts :
          /\ Len(calls) < MaxCalls
          /\ insert_steps(step_number - 1, count)
          /\ calls' = Append(calls, Call("insert_steps", step_number - 1, count))
    \/ \E step_number \in EditDots, count \in DialogCounts :
          /\ Len(calls) < MaxCalls
          /\ insert_steps(step_number, count)
          /\ calls' = Append(calls, Call("insert_steps", step_number, count))
    \/ \E step_number \in EditDots, count \in DialogCounts :
          /\ Len(calls) < MaxCalls
          /\ delete_steps(step_number, count)
          /\ calls' = Append(calls, Call("delete_steps", step_number, count))

SpecEdit == InitEdit /\ [][NextEdit]_vars

-----------------------------------------------------------------------------
(* SpecDoc: Parts.restore on documents of every shape.                     *)

\* 'step-count' of the documents
DocStepCounts == {16, 17}

\* the payload of test_restore
TestPayload == PayloadA

\* what a document holds under 'enabled-steps', <<>> when it lacks the key
EnabledStepsOptions ==
    { <<>>,
      "enabled-steps" :> [name \in {PartName(n) : n \in part_numbers} |->
                             <<CHOOSE n \in part_numbers : PartName(n) = name>>],
      "enabled-steps" :> ("part1" :> <<1, 5, 9, 13>>),
      "enabled-steps" :> (("part1" :> <<16>>) @@ ("part6" :> <<1, 2>>)),
      "enabled-steps" :> ("part2" :> <<5, 1>>),
      "enabled-steps" :> ("part2" :> <<3, 3>>),
      "enabled-steps" :> ("part3" :> <<2, 17>>),
      "enabled-steps" :> ("part5" :> <<>>),
      "enabled-steps" :> ("part7" :> <<1>>) }

\* what a document holds under 'overridden-controls', <<>> when it lacks the key
OverriddenControlsOptions ==
    { <<>>,
      "overridden-controls" :> [name \in {PartName(n) : n \in part_numbers} |->
          (IntKey(CHOOSE n \in part_numbers : PartName(n) = name) :> TestPayload)],
      "overridden-controls" :> ("part1" :> ((IntKey(1) :> PayloadA) @@ (IntKey(16) :> PayloadB))),
      "overridden-controls" :> ("part1" :> (StrKey(1) :> PayloadA)),
      "overridden-controls" :> ("part2" :> (IntKey(2) :> EmptyDict)),
      "overridden-controls" :> ("part2" :> <<>>),
      "overridden-controls" :> ("part3" :> (IntKey(17) :> PayloadA)) }

TempoOptions == {<<>>, "tempo" :> 120, "tempo" :> 360}

BpmOptions == {<<>>, "beats-per-measure" :> 3}

EnabledPartsOptions == {<<>>, "enabled-parts" :> <<2, 3>>}

DocDocuments ==
    { ("step-count" :> n) @@ b @@ t @@ ep @@ es @@ oc :
        n \in DocStepCounts, b \in BpmOptions, t \in TempoOptions,
        ep \in EnabledPartsOptions, es \in EnabledStepsOptions,
        oc \in OverriddenControlsOptions }

InitDoc == Constructed(DocDocuments)

NextDoc ==
    /\ restore
    /\ calls' = <<Call("restore", 0, 0)>>

SpecDoc == InitDoc /\ [][NextDoc]_vars

-----------------------------------------------------------------------------
(* SpecPlay: playback of restored engines; the user checks and unchecks    *)
(* parts and a step, the host overrides a step.                            *)

PlayDocuments ==
    { ("step-count" :> 16) @@ ("enabled-steps" :> ("part1" :> <<5>>)),
      ("step-count" :> 16) @@ ("enabled-parts" :> <<1, 3, 6>>)
          @@ ("enabled-steps" :> (("part1" :> <<1, 2>>) @@ ("part2" :> <<2>>)
                                  @@ ("part3" :> <<2, 16>>) @@ ("part6" :> <<2>>)))
          @@ ("overridden-controls" :>
                (("part1" :> (IntKey(2) :> PayloadA))
                 @@ ("part2" :> (IntKey(2) :> PayloadB))
                 @@ ("part3" :> ((IntKey(3) :> PayloadB) @@ (IntKey(16) :> EmptyDict)))
                 @@ ("part6" :> (IntKey(2) :> PayloadB)))) }

\* the dots the user clicks
PlayDots == {2, 5, step_count}
\* the parts whose check box the user clicks
PlayParts == {1, 2}
\* what the host sets as the override of step 1 of part 2
PlayOverrides == {None, EmptyDict, PayloadA}

InitPlay == Restored(PlayDocuments)

NextPlay ==
    \/ play /\ UNCHANGED calls
    \/ stop /\ UNCHANGED calls
    \/ do_step /\ UNCHANGED calls
    \/ \E step_number \in PlayDots :
          process_dot_click(step_number) /\ UNCHANGED calls
    \/ \E part_number \in PlayParts :
          click_check_box(part_number) /\ UNCHANGED calls
    \/ click_step(2, 1) /\ UNCHANGED calls
    \/ \E overridden_values \in PlayOverrides :
          override_step(2, 1, overridden_values) /\ UNCHANGED calls

SpecPlay == InitPlay /\ [][NextPlay]_vars

-----------------------------------------------------------------------------
(* The specification of recorded playback: calls holds the last operation  *)
(* other than a tick, followed by one record for each tick since, with the *)
(* playhead the tick played and the signals it emitted.                    *)

Tick(step_number, signals) ==
    [name |-> "do_step", position |-> step_number, count |-> 0,
     emitted |-> signals]

CycleDots == {2, 5, step_count}

InitCycle == Constructed(PlayDocuments)

NextCycle ==
    \/ play /\ calls' = <<Call("play", 0, 0)>>
    \/ stop /\ calls' = <<Call("stop", 0, 0)>>
    \/ \E step_number \in CycleDots :
          /\ process_dot_click(step_number)
          /\ calls' = <<Call("process_dot_click", step_number, 0)>>
    \/ restore /\ calls' = <<Call("restore", 0, 0)>>
    \/ /\ Len(calls) <= MaxTicks
       /\ do_step
       /\ calls' = Append(calls, Tick(current_step_number, emitted'))

SpecCycle == InitCycle /\ [][NextCycle]_vars

-----------------------------------------------------------------------------
(* The specification of resizing: engines constructed with every measure   *)
(* length, resized with valid and invalid arguments, playing or stopped.   *)
(* calls holds the last call with the engine it was made on; a             *)
(* change_step_count that follows a shrinking one is kept with it.         *)

Before(name, position, count) ==
    [name |-> name, position |-> position, count |-> count, before |-> Self]

Recorded(call) ==
    IF /\ calls # <<>>
       /\ calls[Len(calls)].name = "change_step_count"
       /\ raised = NoException
       /\ step_count < calls[Len(calls)].before.step_count
       /\ call.name = "change_step_count"
    THEN <<calls[Len(calls)], call>>
    ELSE <<call>>

\* the document of test_change_step_count, with overrides, and two documents
\* without 'step-count'
ResizeDocuments ==
    { ("step-count" :> MaxSteps)
          @@ ("enabled-steps" :>
                [name \in {PartName(part_number) : part_number \in part_numbers} |->
                    SelectSeq(Range(1, MaxSteps),
                              LAMBDA step_number :
                                  PartName((step_number % part_count) + 1) = name)])
          @@ ("overridden-controls" :>
                (("part2" :> (IntKey(1) :> PayloadA))
                 @@ ("part5" :> (IntKey(min_step_count) :> PayloadA))
                 @@ ("part1" :> (IntKey(MaxSteps) :> PayloadB)))),
      ("tempo" :> 120) @@ ("beats-per-measure" :> 3)
          @@ ("enabled-steps" :> ("part1" :> <<1, 2>>)),
      <<>> }

InitialStepCounts == min_step_count..MaxSteps
InitialBpms == min_bpm..min_step_count
ResizeStepCounts ==
    {min_step_count - 1, max_step_count + 1} \cup (min_step_count..MaxSteps)
ResizeBpms == {min_bpm - 1, 3, min_step_count + 1}
ResizeDots == {step_count}

InitResize ==
    /\ stored_values \in ResizeDocuments
    /\ \E initial_step_count \in InitialStepCounts, initial_bpm \in InitialBpms :
          Holds(Parts_init(initial_step_count, initial_bpm))
    /\ Hosted
    /\ emitted = <<>>
    /\ raised = NoException
    /\ calls = <<>>

NextResize ==
    \/ restore /\ calls' = Recorded(Before("restore", 0, 0))
    \/ play /\ calls' = Recorded(Before("play", 0, 0))
    \/ \E step_number \in ResizeDots :
          /\ process_dot_click(step_number)
          /\ calls' = Recorded(Before("process_dot_click", step_number, 0))
    \/ \E new_step_count \in ResizeStepCounts, new_bpm \in ResizeBpms :
          /\ change_step_count(new_step_count, new_bpm)
          /\ calls' = Recorded(Before("change_step_count", new_step_count, new_bpm))

SpecResize == InitResize /\ [][NextResize]_vars

-----------------------------------------------------------------------------
(* The specification of Parts.restore on documents that lack fields or     *)
(* hold values out of range.                                               *)

MalformedStepCountOptions ==
    {<<>>, "step-count" :> (min_step_count - 1), "step-count" :> min_step_count,
     "step-count" :> (max_step_count + 1)}

MalformedBpmOptions ==
    {<<>>, "beats-per-measure" :> (min_bpm - 1), "beats-per-measure" :> 3,
     "beats-per-measure" :> (min_step_count + 1)}

MalformedTempoOptions ==
    {<<>>, "tempo" :> 0, "tempo" :> (min_stored_tempo - 1),
     "tempo" :> (max_stored_tempo + 1)}

MalformedEnabledStepsOptions ==
    { <<>>,
      "enabled-steps" :> ("part1" :> <<0, 1>>),
      "enabled-steps" :> ("part2" :> <<5, -1>>),
      "enabled-steps" :> ("part3" :> <<2, 17>>) }

MalformedOverriddenControlsOptions ==
    { <<>>,
      "overridden-controls" :> ("part1" :> (IntKey(0) :> PayloadA)),
      "overridden-controls" :> ("part2" :> (StrKey(3) :> PayloadB)),
      "overridden-controls" :> ("part4" :> (WordKey("first") :> PayloadA)) }

MalformedDocuments ==
    { n @@ b @@ t @@ es @@ oc :
        n \in MalformedStepCountOptions, b \in MalformedBpmOptions,
        t \in MalformedTempoOptions, es \in MalformedEnabledStepsOptions,
        oc \in MalformedOverriddenControlsOptions }

InitMalformed == Constructed(MalformedDocuments)

NextMalformed ==
    /\ restore
    /\ calls' = <<Call("restore", 0, 0)>>

SpecMalformed == InitMalformed /\ [][NextMalformed]_vars

-----------------------------------------------------------------------------
(* The specification of insertions and deletions on a playing engine: the  *)
(* user plays, moves the playhead, and inserts and deletes steps from the  *)
(* menu of a dot.  calls holds the last call with the engine it was made   *)
(* on.                                                                     *)

StructureDocuments ==
    { ("step-count" :> min_step_count)
          @@ ("enabled-steps" :> ("part1" :> <<5>>))
          @@ ("overridden-controls" :> ("part1" :> (IntKey(5) :> PayloadA))) }

StructureDots == {1, 5, step_count}

InitStructure == Restored(StructureDocuments)

NextStructure ==
    \/ play /\ calls' = <<Before("play", 0, 0)>>
    \/ \E step_number \in StructureDots :
          /\ process_dot_click(step_number)
          /\ calls' = <<Before("process_dot_click", step_number, 0)>>
    \/ \E step_number \in StructureDots, count \in DialogCounts :
          /\ step_count + count <= MaxSteps
          /\ insert_steps(step_number - 1, count)
          /\ calls' = <<Before("insert_steps", step_number - 1, count)>>
    \/ \E step_number \in StructureDots, count \in DialogCounts :
          /\ step_count + count <= MaxSteps
          /\ insert_steps(step_number, count)
          /\ calls' = <<Before("insert_steps", step_number, count)>>
    \/ \E step_number \in StructureDots, count \in DialogCounts :
          /\ delete_steps(step_number, count)
          /\ calls' = <<Before("delete_steps", step_number, count)>>

SpecStructure == InitStructure /\ [][NextStructure]_vars

-----------------------------------------------------------------------------
(* The specification of the clock: play, stop, ticks, clicks on dots,      *)
(* change_tempo with tempos inside and outside [60, 360], and restore of   *)
(* documents with such tempos.  calls holds the last call with the engine  *)
(* it was made on.                                                         *)

ClockTempos ==
    {0, min_stored_tempo - 1, min_stored_tempo, max_stored_tempo,
     max_stored_tempo + 1, minute_ms, minute_ms + 1}

ClockDocuments ==
    { ("step-count" :> min_step_count) @@ ("tempo" :> (minute_ms + 1))
          @@ ("enabled-steps" :> ("part1" :> <<5>>)),
      ("step-count" :> min_step_count) @@ ("tempo" :> 120)
          @@ ("enabled-parts" :> <<1, 3>>)
          @@ ("enabled-steps" :> (("part1" :> <<1>>) @@ ("part2" :> <<16>>)))
          @@ ("overridden-controls" :> ("part3" :> (IntKey(2) :> PayloadA))) }

ClockDots == {5, step_count}

InitClock == Constructed(ClockDocuments)

NextClock ==
    \/ play /\ calls' = <<Before("play", 0, 0)>>
    \/ stop /\ calls' = <<Before("stop", 0, 0)>>
    \/ do_step /\ calls' = <<Before("do_step", 0, 0)>>
    \/ \E step_number \in ClockDots :
          /\ process_dot_click(step_number)
          /\ calls' = <<Before("process_dot_click", step_number, 0)>>
    \/ \E new_tempo \in ClockTempos :
          /\ change_tempo(new_tempo)
          /\ calls' = <<Before("change_tempo", new_tempo, 0)>>
    \/ restore /\ calls' = <<Before("restore", 0, 0)>>

SpecClock == InitClock /\ [][NextClock]_vars

-----------------------------------------------------------------------------
(* The specification of live recording: enable_current_step on stopped and *)
(* playing engines at every phase of the interval.  calls holds the last   *)
(* call with the engine it was made on; of enable_current_step, position   *)
(* is the part and count the remaining time.                               *)

RecordDocuments ==
    { ("step-count" :> min_step_count)
          @@ ("enabled-steps" :> ("part1" :> <<2>>))
          @@ ("overridden-controls" :>
                (("part1" :> (IntKey(2) :> PayloadA))
                 @@ ("part2" :> (IntKey(min_step_count) :> PayloadB)))) }

RecordDots == {1, 2, step_count}
RecordParts == {1, 2, part_count + 1}
\* what QTimer.remainingTime() may return: the ends and the middle of the
\* interval
RecordRemainingTimes == {0, timer.interval \div 2, timer.interval}

InitRecord == Restored(RecordDocuments)

NextRecord ==
    \/ play /\ calls' = <<Before("play", 0, 0)>>
    \/ stop /\ calls' = <<Before("stop", 0, 0)>>
    \/ \E step_number \in RecordDots :
          /\ process_dot_click(step_number)
          /\ calls' = <<Before("process_dot_click", step_number, 0)>>
    \/ \E part_number \in RecordParts, remaining_time \in RecordRemainingTimes :
          /\ CheckedCount(Self) <= MaxContent
          /\ Commit(Parts_enable_current_step(Self, part_number, remaining_time))
          /\ calls' = <<Before("enable_current_step", part_number, remaining_time)>>

SpecRecord == InitRecord /\ [][NextRecord]_vars

-----------------------------------------------------------------------------
(* The specification of the check boxes of the parts: the user checks and  *)
(* unchecks parts while the restored engines play.  calls holds the last   *)
(* call with the engine it was made on; a click on a check box that        *)
(* follows a click on the same check box is kept with it.                  *)

Clicked(call) ==
    IF /\ calls # <<>>
       /\ calls[Len(calls)].name = "click_check_box"
       /\ calls[Len(calls)].position = call.position
       /\ call.name = "click_check_box"
    THEN <<calls[Len(calls)], call>>
    ELSE <<call>>

CheckBoxDots == {2}

InitCheckBox == Restored(PlayDocuments)

NextCheckBox ==
    \/ play /\ calls' = <<Before("play", 0, 0)>>
    \/ do_step /\ calls' = <<Before("do_step", 0, 0)>>
    \/ \E step_number \in CheckBoxDots :
          /\ process_dot_click(step_number)
          /\ calls' = <<Before("process_dot_click", step_number, 0)>>
    \/ \E part_number \in PlayParts :
          /\ click_check_box(part_number)
          /\ calls' = Clicked(Before("click_check_box", part_number, 0))

SpecCheckBox == InitCheckBox /\ [][NextCheckBox]_vars

-----------------------------------------------------------------------------
(* The specification of the strong marks: engines constructed and restored *)
(* with measures of 3 and 4 beats, resized, and edited from the menu of a  *)
(* dot.                                                                    *)

StrongDocuments ==
    { ("step-count" :> min_step_count) @@ ("beats-per-measure" :> 3)
          @@ ("enabled-steps" :> ("part1" :> <<4>>))
          @@ ("overridden-controls" :> ("part1" :> (IntKey(4) :> PayloadA))) }

StrongBpms == {3, default_bpm}
StrongDots == {1, 4, step_count}

InitStrong == Constructed(StrongDocuments)

NextStrong ==
    \/ restore /\ UNCHANGED calls
    \/ \E new_step_count \in StepCounts, new_bpm \in StrongBpms :
          change_step_count(new_step_count, new_bpm) /\ UNCHANGED calls
    \/ \E step_number \in StrongDots, count \in DialogCounts :
          /\ step_count + count <= MaxSteps
          /\ insert_steps(step_number - 1, count)
          /\ UNCHANGED calls
    \/ \E step_number \in StrongDots, count \in DialogCounts :
          /\ step_count + count <= MaxSteps
          /\ insert_steps(step_number, count)
          /\ UNCHANGED calls
    \/ \E step_number \in StrongDots, count \in DialogCounts :
          delete_steps(step_number, count) /\ UNCHANGED calls

SpecStrong == InitStrong /\ [][NextStrong]_vars

-----------------------------------------------------------------------------
(* The specification of step_at: the host asks for steps inside and        *)
(* outside the grid of an engine that is resized and edited.  calls holds  *)
(* the last call with the engine it was made on; of step_at, position is   *)
(* the part and count the step.                                            *)

StepAtParts == {0, 1, part_count, part_count + 1}
StepAtSteps == {0, 1, 5, step_count, step_count + 1}
StepAtDots == {1, step_count}

InitStepAt == Restored(StructureDocuments)

NextStepAt ==
    \/ \E part_number \in StepAtParts, step_number \in StepAtSteps :
          /\ step_at(part_number, step_number)
          /\ calls' = <<Before("step_at", part_number, step_number)>>
    \/ \E new_step_count \in StepCounts, new_bpm \in StrongBpms :
          /\ change_step_count(new_step_count, new_bpm)
          /\ calls' = <<Before("change_step_count", new_step_count, new_bpm)>>
    \/ \E step_number \in StepAtDots :
          /\ step_count + 1 <= MaxSteps
          /\ insert_steps(step_number - 1, 1)
          /\ calls' = <<Before("insert_steps", step_number - 1, 1)>>
    \/ \E step_number \in StepAtDots :
          /\ delete_steps(step_number, 1)
          /\ calls' = <<Before("delete_steps", step_number, 1)>>

SpecStepAt == InitStepAt /\ [][NextStepAt]_vars

-----------------------------------------------------------------------------
(* The specification of the full grid: engines of 1023 and 1024 steps, on  *)
(* which the dialog of a Dot asks for the insertion of 2 and 128 steps.    *)
(* calls holds the last call with the engine it was made on.               *)

FullDocuments ==
    { ("step-count" :> (max_step_count - 1))
          @@ ("enabled-steps" :> ("part1" :> <<5, max_step_count - 1>>))
          @@ ("overridden-controls" :> ("part1" :> (IntKey(5) :> PayloadA))),
      ("step-count" :> max_step_count)
          @@ ("enabled-steps" :> ("part2" :> <<1, max_step_count>>))
          @@ ("overridden-controls" :>
                ("part2" :> (IntKey(max_step_count) :> PayloadB))) }

FullDots == {1, 5, step_count}
FullCounts == {2, max_dialog_count}

InitFull == Restored(FullDocuments)

NextFull ==
    \/ play /\ calls' = <<Before("play", 0, 0)>>
    \/ stop /\ calls' = <<Before("stop", 0, 0)>>
    \/ \E step_number \in FullDots :
          /\ process_dot_click(step_number)
          /\ calls' = <<Before("process_dot_click", step_number, 0)>>
    \/ \E step_number \in FullDots, count \in FullCounts :
          /\ insert_steps(step_number - 1, count)
          /\ calls' = <<Before("insert_steps", step_number - 1, count)>>
    \/ \E step_number \in FullDots, count \in FullCounts :
          /\ insert_steps(step_number, count)
          /\ calls' = <<Before("insert_steps", step_number, count)>>

SpecFull == InitFull /\ [][NextFull]_vars

-----------------------------------------------------------------------------
(* The specification of the Timeline: restore of a document with and of a  *)
(* document without 'step-count', between which the user enables step 1 of *)
(* part 1 and plays.                                                       *)

TimelineDocuments ==
    { "tempo" :> 120,
      ("step-count" :> min_step_count) @@ ("enabled-steps" :> ("part1" :> <<5>>)) }

InitTimeline == Constructed(TimelineDocuments)

NextTimeline ==
    \/ restore /\ UNCHANGED calls
    \/ click_step(1, 1) /\ UNCHANGED calls
    \/ play /\ UNCHANGED calls
    \/ stop /\ UNCHANGED calls
    \/ do_step /\ UNCHANGED calls

SpecTimeline == InitTimeline /\ [][NextTimeline]_vars

-----------------------------------------------------------------------------
(* The specification of the SelectControl: the user clicks the buttons of  *)
(* its rows and GroupOfControls.restore restores it, forced or not.  calls *)
(* holds the last call with the control it was made on.                    *)

ControlRows == {"sound_source", "pitch_modulator", "amplitude_envelope_generator"}

\* the ids of the buttons of a row
ButtonIds(row) ==
    CASE row = "sound_source" -> 0..(sound_source_count - 1)
      [] row = "pitch_modulator" -> 0..(pitch_modulator_count - 1)
      [] row = "amplitude_envelope_generator" ->
             0..(amplitude_envelope_generator_count - 1)

\* the values of 'select' in the documents and overrides that are restored
RestoredValues == {0, 1, 3, 64, 126, 127}

Clicking(row, id) ==
    [name |-> "click", row |-> row, id |-> id, before |-> control]

Restoring(value, is_overridden, force) ==
    [name |-> "_restore_control", value |-> value,
     is_overridden |-> is_overridden, force |-> force, before |-> control]

InitControl == Constructed(Documents)

NextControl ==
    \/ \E row \in ControlRows :
          \E id \in ButtonIds(row) :
              /\ click_button(row, id)
              /\ calls' = <<Clicking(row, id)>>
    \/ \E value \in RestoredValues, is_overridden \in BOOLEAN, force \in BOOLEAN :
          /\ restore_control(value, is_overridden, force)
          /\ calls' = <<Restoring(value, is_overridden, force)>>

SpecControl == InitControl /\ [][NextControl]_vars

-----------------------------------------------------------------------------
(* The properties.                                                         *)

\* what a step holds: its enabled flag and its override
Content(step) == <<step.checked, get_overridden_values(step)>>

\* the steps of a part that are enabled
EnabledSteps(e, part_number) ==
    {step_number \in 1..e.step_count : e.steps[part_number][step_number].checked}

\* the engine that Parts.restore returns for the document the host holds
RestoredEngine == Parts_restore(stored_values).parts[1]

RECURSIVE Replayed(_, _)
\* the engine e after the recorded calls cs
Replayed(e, cs) ==
    IF cs = <<>>
    THEN e
    ELSE Replayed(IF Head(cs).name = "insert_steps"
                  THEN Parts_insert_steps(e, Head(cs).position, Head(cs).count).self
                  ELSE Parts_delete_steps(e, Head(cs).position, Head(cs).count).self,
                  Tail(cs))

\* the call a step of SpecEdit records
Called == calls'[Len(calls')]
Calls(name) == Len(calls') = Len(calls) + 1 /\ Called.name = name

\* store()['enabled-steps']['part1'], the empty list when store() has no such key
StoredPart1(e) == Get(Get(Parts_store(e), "enabled-steps", <<>>), "part1", <<>>)

----
\* C1: for every reachable engine e, restore(store(e)) has the step_count,
\* the bpm, the enabled parts and every cell's enabled flag and override of
\* e, and the tempo of e clamped to [60, 360].
C1_EngineRoundTrip ==
    LET r == Parts_restore(Parts_store(Self))
    IN /\ r.raised = NoException
       /\ r.parts # <<>>
       /\ r.parts[1].step_count = step_count
       /\ r.parts[1].bpm = bpm
       /\ tempo(r.parts[1]) = Min(max_stored_tempo, Max(min_stored_tempo, tempo(Self)))
       /\ r.parts[1].check_box = check_box
       /\ \A part_number \in part_numbers, step_number \in 1..step_count :
             Content(r.parts[1].steps[part_number][step_number])
                 = Content(steps[part_number][step_number])

----
\* a document as C2 takes it to be well-formed: step-count in [16, 1024],
\* every listed step in [1, step-count], no empty list, no empty payload
WellFormed(d) ==
    LET enabled_steps == Get(d, "enabled-steps", <<>>)
        overridden_controls == Get(d, "overridden-controls", <<>>)
    IN /\ check_int_value(d["step-count"], min_step_count, max_step_count)
       /\ \A name \in DOMAIN enabled_steps :
             /\ enabled_steps[name] # <<>>
             /\ \A i \in DOMAIN enabled_steps[name] :
                   enabled_steps[name][i] \in 1..d["step-count"]
       /\ \A name \in DOMAIN overridden_controls :
             \A key \in DOMAIN overridden_controls[name] :
                /\ int(key) \in 1..d["step-count"]
                /\ Truthy(overridden_controls[name][key])

\* a well-formed document as store writes it: only part1..part6 named, the
\* lists strictly ascending, the keys of the overrides ints, no part without
\* an override listed
AsStored(d) ==
    LET enabled_steps == Get(d, "enabled-steps", <<>>)
        overridden_controls == Get(d, "overridden-controls", <<>>)
    IN /\ \A name \in DOMAIN enabled_steps :
             /\ name \in {PartName(part_number) : part_number \in part_numbers}
             /\ \A i, j \in DOMAIN enabled_steps[name] :
                   i < j => enabled_steps[name][i] < enabled_steps[name][j]
       /\ \A name \in DOMAIN overridden_controls :
             /\ name \in {PartName(part_number) : part_number \in part_numbers}
             /\ DOMAIN overridden_controls[name] # {}
             /\ \A key \in DOMAIN overridden_controls[name] : key.type = "int"

\* store() of the engine holds the 'enabled-steps' and 'overridden-controls'
\* of the document, and no 'overridden-controls' when the document has none
RoundTrips ==
    /\ raised = NoException
    /\ Get(Parts_store(Self), "enabled-steps", <<>>)
           = Get(stored_values, "enabled-steps", <<>>)
    /\ Get(Parts_store(Self), "overridden-controls", <<>>)
           = Get(stored_values, "overridden-controls", <<>>)
    /\ "overridden-controls" \notin DOMAIN stored_values
           => "overridden-controls" \notin DOMAIN Parts_store(Self)

\* C2 as the specification states it: for every well-formed document d, restore(d).store() has
\* the 'enabled-steps' and the 'overridden-controls' of d.
C2_DocumentRoundTrip ==
    (calls # <<>> /\ WellFormed(stored_values)) => RoundTrips

\* C2 amended: for every well-formed document d that names only part1..part6,
\* whose lists are strictly ascending, whose override keys are ints and which
\* lists no part without an override, restore(d).store() has the 'enabled-steps' and the
\* 'overridden-controls' of d, and no 'overridden-controls' when d has none.
C2_StoredDocumentRoundTrip ==
    (calls # <<>> /\ WellFormed(stored_values) /\ AsStored(stored_values))
        => RoundTrips

\* restore has returned the engine of the document of test_restore with
\* overrides, on 17 steps and with a tempo
C2_RestoredTestDocument ==
    /\ calls # <<>>
    /\ WellFormed(stored_values) /\ AsStored(stored_values)
    /\ stored_values["step-count"] = 17
    /\ "tempo" \in DOMAIN stored_values
    /\ \A part_number \in part_numbers :
          /\ EnabledSteps(Self, part_number) = {part_number}
          /\ get_overridden_values(steps[part_number][part_number]) = TestPayload

----
\* C3: in every reachable state the playhead is in [1, step_count].
C3_CursorInRange == current_step_number \in 1..step_count

\* the playhead on the last of more than 16 steps while the timer runs
C3_PlayingLastStep ==
    /\ timer.active
    /\ step_count > min_step_count
    /\ current_step_number = step_count

----
\* the cells of every part after insert_steps(after_index, count)
Inserted(old_steps, new_steps, old_step_count, after_index, count) ==
    \A part_number \in part_numbers :
        /\ \A s \in 1..after_index :
              Content(new_steps[part_number][s]) = Content(old_steps[part_number][s])
        /\ \A s \in (after_index + 1)..(after_index + count) :
              Content(new_steps[part_number][s]) = <<FALSE, None>>
        /\ \A s \in (after_index + count + 1)..(old_step_count + count) :
              Content(new_steps[part_number][s])
                  = Content(old_steps[part_number][s - count])

----
----
\* C6: on the engine restored with 16 steps, part 1 enabled at every step,
\* insert_steps(0, n), or n calls of insert_steps(0, 1), leave
\* store()['enabled-steps']['part1'] equal to [n+1 .. 16].
C6_FrontInsertPushesOffTheEnd ==
    (/\ stored_values = TestDocument(Range(1, 16))
     /\ calls # <<>>
     /\ \A i \in DOMAIN calls :
           /\ calls[i].name = "insert_steps" /\ calls[i].position = 0
           /\ Len(calls) > 1 => calls[i].count = 1)
        => StoredPart1(Self) =
              Range((IF Len(calls) > 1 THEN Len(calls) ELSE calls[1].count) + 1, 16)

----
\* C7: insert_steps(k, n) followed by delete_steps(k + 1, n) returns and
\* leaves every part the enabled steps it had before the insertion; part 1
\* enabled at {1, 5, 9, 13} has {3, 7, 11, 15} after insert_steps(0, 2).
C7_InsertDeleteInverse ==
    /\ \A i \in DOMAIN calls :
          (/\ i + 1 = Len(calls)
           /\ calls[i].name = "insert_steps"
           /\ calls[i + 1] = Call("delete_steps", calls[i].position + 1, calls[i].count))
             => /\ raised = NoException
                /\ \A part_number \in part_numbers :
                      EnabledSteps(Self, part_number)
                          = EnabledSteps(Replayed(RestoredEngine, SubSeq(calls, 1, i - 1)),
                                         part_number)
    /\ (stored_values = TestDocument(<<1, 5, 9, 13>>)
           /\ calls = <<Call("insert_steps", 0, 2)>>)
          => EnabledSteps(Self, 1) = {3, 7, 11, 15}

\* the scenario of the test: insert_steps(0, 2), then delete_steps(1, 2)
C7_TestScenarioUndone ==
    /\ stored_values = TestDocument(<<1, 5, 9, 13>>)
    /\ calls = <<Call("insert_steps", 0, 2), Call("delete_steps", 1, 2)>>
    /\ EnabledSteps(Self, 1) = {1, 5, 9, 13}

----
\* the cells of every part after delete_steps(first_index, count)
Deleted(old_steps, new_steps, old_step_count, first_index, count) ==
    \A part_number \in part_numbers :
        /\ \A s \in 1..(first_index - 1) :
              Content(new_steps[part_number][s]) = Content(old_steps[part_number][s])
        /\ \A s \in first_index..(old_step_count - count) :
              Content(new_steps[part_number][s])
                  = Content(old_steps[part_number][s + count])

\* C8: delete_steps(first_index, count) with first_index + count - 1 <=
\* step_count and step_count - count >= 16 returns and leaves the cells
\* before first_index as they were and in every cell s >= first_index the
\* enabled flag and the override of the former cell s + count; the cells of
\* the block are gone.
C8_DeleteMigration ==
    [][(/\ Calls("delete_steps")
        /\ Called.position + Called.count - 1 <= step_count
        /\ step_count - Called.count >= min_step_count)
          => /\ raised' = NoException
             /\ DOMAIN steps'[1] = 1..(step_count - Called.count)
             /\ Deleted(steps, steps', step_count, Called.position, Called.count)]_vars

\* steps 5 and 6 deleted from the document of 18 steps: the enabled step 6
\* of part 3 is gone, step 18 of part 1 is step 16
C8_DeletedStepsFiveAndSix ==
    /\ calls = <<Call("delete_steps", 5, 2)>>
    /\ stored_values["step-count"] = 18
    /\ step_count = 16
    /\ EnabledSteps(Self, 3) = {}
    /\ EnabledSteps(Self, 1) = {1, 15, 16}
    /\ Content(steps[1][4]) = <<FALSE, PayloadB>>
    /\ Content(steps[1][16]) = <<TRUE, PayloadA>>

----
\* C9: on the engine restored with 16 steps, part 1 enabled at every step,
\* i calls of delete_steps(1, 1), or of delete_steps(16 - j, 1) for
\* j = 0..i-1, each return and leave store()['enabled-steps']['part1'] equal
\* to [1 .. 16-i].
C9_DeleteEverything ==
    (/\ stored_values = TestDocument(Range(1, 16))
     /\ calls # <<>>
     /\ \/ \A i \in DOMAIN calls : calls[i] = Call("delete_steps", 1, 1)
        \/ \A i \in DOMAIN calls : calls[i] = Call("delete_steps", 16 - (i - 1), 1))
        => /\ raised = NoException
           /\ StoredPart1(Self) = Range(1, 16 - Len(calls))

----
\* what a tick emits at the playhead: for each enabled part the override of
\* its cell, if not empty, and its note, if the cell is enabled
TickEvents ==
    {overridden_values_found(part_number,
                             get_overridden_values(steps[part_number][current_step_number])) :
        part_number \in {p \in part_numbers :
            check_box[p] /\ Truthy(get_overridden_values(steps[p][current_step_number]))}}
    \cup {note_on(part_number) :
            part_number \in {p \in part_numbers :
                check_box[p] /\ steps[p][current_step_number].checked}}

\* C10: a tick at cursor c emits, for the enabled parts in ascending order,
\* the override of cell (part, c) if it is not empty and then note_on(part)
\* if the cell is enabled, once each and nothing else; it changes no cell and
\* moves the cursor to c + 1, or to 1 from step_count.  With part 1 enabled at
\* step 5 only and the cursor at 5 it emits exactly one note_on(1).
C10_Tick ==
    [][do_step =>
        /\ Elements(emitted') = TickEvents
        /\ Len(emitted') = Cardinality(TickEvents)
        /\ \A i, j \in DOMAIN emitted' :
              i < j => \/ emitted'[i].args[1] < emitted'[j].args[1]
                       \/ /\ emitted'[i].args[1] = emitted'[j].args[1]
                          /\ emitted'[i].signal = "overridden_values_found"
                          /\ emitted'[j].signal = "note_on"
        /\ steps' = steps
        /\ check_box' = check_box
        /\ step_count' = step_count
        /\ current_step_number' =
              (IF current_step_number = step_count THEN 1 ELSE current_step_number + 1)
        /\ (/\ current_step_number = 5
            /\ check_box[1]
            /\ \A part_number \in part_numbers :
                  EnabledSteps(Self, part_number) = (IF part_number = 1 THEN {5} ELSE {}))
              => Cardinality({i \in DOMAIN emitted' : emitted'[i] = note_on(1)}) = 1]_vars

\* a tick at step 2 of the document with parts 1, 3 and 6 enabled has emitted
\* the overrides and the notes of these parts, not those of part 2
C10_TickedStepTwo ==
    /\ timer.active
    /\ current_step_number = 3
    /\ steps[2][2].checked /\ ~check_box[2]
    /\ emitted = <<overridden_values_found(1, PayloadA), note_on(1), note_on(3),
                   overridden_values_found(6, PayloadB), note_on(6)>>

\* the ticks recorded since the last other operation
Ticks == SubSeq(calls, 2, Len(calls))

\* the places <<tick, signal>> of the recorded ticks
Emissions(ticks) ==
    UNION {{<<i, j>> : j \in DOMAIN ticks[i].emitted} : i \in DOMAIN ticks}

\* C11: while the engine runs and nothing else is called, the ticks visit
\* c, c+1, ..., step_count, 1, 2, ... from the playhead c they started at,
\* without skipping or repeating a position within a cycle; after step_count
\* ticks the playhead is back at c and every checked step of every enabled
\* part produced exactly one note_on of its part, and no other step any.
C11_CyclicPlayback ==
    LET ticks == Ticks
        c == ticks[1].position
    IN  ticks # <<>> =>
          /\ timer.active
          /\ \A i \in DOMAIN ticks :
                ticks[i].position = ((c + i - 2) % step_count) + 1
          /\ current_step_number = ((c + Len(ticks) - 1) % step_count) + 1
          /\ \A i, j \in DOMAIN ticks :
                (i < j /\ j - i < step_count) =>
                  ticks[i].position # ticks[j].position
          /\ Len(ticks) = step_count =>
                /\ current_step_number = c
                /\ \A p \in part_numbers, s \in 1..step_count :
                      Cardinality({x \in Emissions(ticks) :
                                     /\ ticks[x[1]].position = s
                                     /\ ticks[x[1]].emitted[x[2]] = note_on(p)})
                        = IF check_box[p] /\ steps[p][s].checked THEN 1 ELSE 0

\* a whole cycle was played from step 5 of the restored document with parts
\* 1, 3 and 6 enabled
C11_PlayedOneCycleFromStepFive ==
    /\ Len(Ticks) = step_count
    /\ Ticks[1].position = 5
    /\ current_step_number = 5
    /\ ~check_box[2]
    /\ \E i \in DOMAIN Ticks : Ticks[i].emitted # <<>>

\* C12: a constructed engine is stopped; a restored engine is stopped; after
\* stop() the engine is stopped; and from a stopped engine every step other
\* than play() leaves it stopped and is not a tick.
C12_TicksOnlyWhileRunning ==
    /\ ~timer.active
    /\ [][/\ calls'[1].name \in {"stop", "restore"} => ~timer'.active
          /\ (~timer.active /\ calls'[1].name # "play") =>
                /\ ~timer'.active
                /\ Len(calls') = 1
                /\ calls'[1].name # "do_step"]_vars

\* a playing engine was stopped, and the playhead of the stopped engine was
\* then moved by a click on a dot
C12_StoppedAndClicked ==
    /\ calls = <<Call("process_dot_click", 5, 0)>>
    /\ ~timer.active
    /\ current_step_number = 5
    /\ steps[1][5].checked

\* the last call of a specification that records calls
LastCall == calls[Len(calls)]

\* the last call is name(...) and was made with arguments in range
ValidResize ==
    /\ calls # <<>>
    /\ LastCall.name = "change_step_count"
    /\ LastCall.position \in 16..1024
    /\ LastCall.count \in 2..16

\* C13: change_step_count with valid arguments leaves the timer stopped and
\* the playhead at 1 when new_step_count differs from step_count, and leaves
\* the timer and the playhead as they were when it does not.
C13_ResizeStopsIffCountChanges ==
    ValidResize =>
        IF LastCall.position # LastCall.before.step_count
        THEN ~timer.active /\ current_step_number = 1
        ELSE /\ timer.active = LastCall.before.timer.active
             /\ current_step_number = LastCall.before.current_step_number

\* only bpm was changed on a playing engine whose playhead is on the last step
C13_BpmChangedWhilePlaying ==
    /\ ValidResize
    /\ LastCall.position = LastCall.before.step_count
    /\ bpm # LastCall.before.bpm
    /\ timer.active
    /\ current_step_number = step_count

\* the cells of columns lo..hi are those of the engine e
SameCells(e, lo, hi) ==
    \A part_number \in part_numbers, step_number \in lo..hi :
        Content(steps[part_number][step_number])
            = Content(e.steps[part_number][step_number])

\* the cells of columns lo..hi are unchecked and have no override
DefaultCells(lo, hi) ==
    \A part_number \in part_numbers, step_number \in lo..hi :
        Content(steps[part_number][step_number]) = <<FALSE, None>>

\* C15: after change_step_count the cells of the columns up to the smaller
\* of the old and the new step count are as they were, and the columns added
\* are unchecked without override; after shrinking from n to m and growing
\* back to n the cells of columns 1..m are those of the original engine and
\* the cells of columns m+1..n are unchecked without override.
C15_ResizeMonotonicity ==
    ValidResize =>
        /\ SameCells(LastCall.before, 1, Min(LastCall.before.step_count, step_count))
        /\ DefaultCells(LastCall.before.step_count + 1, step_count)
        /\ (Len(calls) = 2 /\ calls[1].before.step_count = step_count) =>
              /\ SameCells(calls[1].before, 1, calls[1].position)
              /\ DefaultCells(calls[1].position + 1, step_count)

\* the restored document was shrunk to 16 steps and grown back: the override
\* and the checked step of the last column are lost, those of column 16 kept
C15_ShrunkAndGrownBack ==
    /\ Len(calls) = 2
    /\ ValidResize
    /\ calls[1].position = 16
    /\ step_count = calls[1].before.step_count
    /\ get_overridden_values(calls[1].before.steps[1][step_count]) = PayloadB
    /\ \E part_number \in part_numbers :
          calls[1].before.steps[part_number][step_count].checked
    /\ DefaultCells(step_count, step_count)
    /\ Content(steps[5][16]) = <<TRUE, PayloadA>>

\* C16: change_step_count raises ValueError exactly when new_step_count is
\* outside [16, 1024] or new_bpm is outside [2, 16], and the call that raises
\* leaves the engine as it was and emits nothing.
C16_InvalidResizeFailsAtomically ==
    (calls # <<>> /\ LastCall.name = "change_step_count") =>
        /\ raised = IF ValidResize THEN NoException ELSE ValueError
        /\ ~ValidResize => (Self = LastCall.before /\ emitted = <<>>)

\* a playing engine with the playhead on its last step was asked for another
\* step count and 17 beats per measure
C16_RefusedWhilePlaying ==
    /\ calls # <<>>
    /\ LastCall.name = "change_step_count"
    /\ LastCall.position \in 16..1024
    /\ LastCall.position # step_count
    /\ LastCall.count = 17
    /\ raised = ValueError
    /\ timer.active
    /\ current_step_number = step_count

\* C17: a constructed engine has every cell unchecked without override and
\* step s strong exactly when (s - 1) mod bpm = 0; Parts() has 16 steps, 4
\* beats per measure and tempo 60.
C17_FreshEngine ==
    /\ calls = <<>> =>
          /\ DefaultCells(1, step_count)
          /\ \A part_number \in part_numbers, step_number \in 1..step_count :
                steps[part_number][step_number].is_strong
                    <=> ((step_number - 1) % bpm = 0)
          /\ tempo(Self) = 60
    /\ LET parts == Parts_init(min_step_count, default_bpm)
       IN parts.step_count = 16 /\ parts.bpm = 4 /\ tempo(parts) = 60

\* the engine constructed with 17 steps and 3 beats per measure
C17_SeventeenStepsInThree ==
    /\ calls = <<>>
    /\ step_count = 17
    /\ bpm = 3
    /\ steps[1][16].is_strong
    /\ ~steps[1][17].is_strong

\* C20: Parts.restore of a document without 'step-count' returns None and
\* raises nothing, and the host's engine is then the one it had.
C20_MissingStepCountKeepsEngine ==
    "step-count" \notin DOMAIN stored_values =>
        /\ Parts_restore(stored_values) = [parts |-> <<>>, raised |-> NoException]
        /\ (calls # <<>> /\ LastCall.name = "restore") =>
              (Self = LastCall.before /\ raised = NoException)

\* a playing engine of 17 steps in 5 was asked to restore a document that has
\* a tempo, a measure length and enabled steps and no 'step-count'
C20_KeptResizedEngine ==
    /\ calls # <<>>
    /\ LastCall.name = "restore"
    /\ "step-count" \notin DOMAIN stored_values
    /\ "tempo" \in DOMAIN stored_values
    /\ step_count = 17
    /\ bpm = 5
    /\ timer.active
    /\ current_step_number = step_count

\* C18: the engine restored from a document that has 'step-count' has tempo
\* 60 when the document lacks 'tempo', 4 beats per measure when it lacks
\* 'beats-per-measure', every part checked when it lacks 'enabled-parts', no
\* checked step when it lacks 'enabled-steps' and no override when it lacks
\* 'overridden-controls'.
C18_RestoreDefaults ==
    calls # <<>> =>
        /\ raised = NoException
        /\ step_count = stored_values["step-count"]
        /\ "tempo" \notin DOMAIN stored_values => tempo(Self) = 60
        /\ "beats-per-measure" \notin DOMAIN stored_values =>
              /\ bpm = 4
              /\ \A part_number \in part_numbers, step_number \in 1..step_count :
                    steps[part_number][step_number].is_strong
                        <=> ((step_number - 1) % 4 = 0)
        /\ "enabled-parts" \notin DOMAIN stored_values =>
              \A part_number \in part_numbers : check_box[part_number]
        /\ "enabled-steps" \notin DOMAIN stored_values =>
              \A part_number \in part_numbers : EnabledSteps(Self, part_number) = {}
        /\ "overridden-controls" \notin DOMAIN stored_values =>
              \A part_number \in part_numbers, step_number \in 1..step_count :
                  get_overridden_values(steps[part_number][step_number]) = None

\* restore has returned the engine of a document that holds 'step-count' 17
\* and nothing else
C18_RestoredStepCountAlone ==
    /\ calls # <<>>
    /\ DOMAIN stored_values = {"step-count"}
    /\ step_count = 17
    /\ bpm = 4
    /\ tempo(Self) = 60
    /\ ~timer.active

\* C19: Parts.restore raises for no document; it returns None for a document
\* without 'step-count' and an engine for every other document, whatever
\* fields are absent or out of range.
C19_RestoreIsTotal ==
    calls # <<>> =>
        /\ raised = NoException
        /\ Parts_restore(stored_values).parts = <<>>
              <=> "step-count" \notin DOMAIN stored_values

\* C14: an insert_steps or delete_steps of one step or more that raises
\* nothing, called while the timer runs, leaves the timer stopped and the
\* playhead at step 1, within the steps that remain.
C14_StructuralEditsStop ==
    (/\ calls # <<>>
     /\ LastCall.name \in {"insert_steps", "delete_steps"}
     /\ LastCall.count >= 1
     /\ raised = NoException
     /\ LastCall.before.timer.active) =>
        /\ ~timer.active
        /\ current_step_number = 1
        /\ current_step_number \in 1..step_count
        /\ step_count # LastCall.before.step_count

\* the last of 17 steps was deleted while it was playing
C14_DeletedThePlayingStep ==
    /\ calls # <<>>
    /\ LastCall.name = "delete_steps"
    /\ LastCall.before.timer.active
    /\ LastCall.before.step_count = 17
    /\ LastCall.before.current_step_number = 17
    /\ LastCall.position = 17
    /\ raised = NoException
    /\ step_count = 16
    /\ ~timer.active

\* C21: in every reachable state store() raises nothing and the 'tempo' of
\* the document it returns is in [60, 360].
C21_StoredTempoInRange ==
    /\ Parts_store_raised(Self) = NoException
    /\ Parts_store(Self)["tempo"] \in 60..360

\* C23: stop() leaves the timer stopped and the playhead at step 1, and the
\* steps, step_count, bpm, the timer's interval and the check boxes of the
\* parts as they were.
C23_StopRewinds ==
    (calls # <<>> /\ LastCall.name = "stop") =>
        /\ ~timer.active
        /\ current_step_number = 1
        /\ steps = LastCall.before.steps
        /\ step_count = LastCall.before.step_count
        /\ bpm = LastCall.before.bpm
        /\ timer.interval = LastCall.before.timer.interval
        /\ check_box = LastCall.before.check_box

\* stop() was called on a stopped engine whose playhead was on step 5
C23_StoppedAStoppedEngine ==
    /\ calls # <<>>
    /\ LastCall.name = "stop"
    /\ ~LastCall.before.timer.active
    /\ LastCall.before.current_step_number = 5
    /\ LastCall.before.steps[1][5].checked

\* C24: play() leaves the timer running, whether or not it was, and the
\* playhead, the steps and everything else as they were.
C24_PlayIsIdempotent ==
    (calls # <<>> /\ LastCall.name = "play") =>
        /\ timer.active
        /\ Self = [LastCall.before EXCEPT !.timer.active = TRUE]
        /\ LastCall.before.timer.active => Self = LastCall.before

\* play() was called on a running engine whose playhead was on step 5
C24_PlayedWhilePlaying ==
    /\ calls # <<>>
    /\ LastCall.name = "play"
    /\ LastCall.before.timer.active
    /\ current_step_number = 5
    /\ steps[1][5].checked

\* C25: change_tempo(t), t not 0, sets the timer's interval to the integer
\* quotient 60000 / t; for every t it leaves the playhead, the timer running
\* or not, the steps and everything else as they were.
C25_ChangeTempoSetsInterval ==
    (calls # <<>> /\ LastCall.name = "change_tempo") =>
        /\ LastCall.position # 0 =>
              /\ raised = NoException
              /\ timer.interval = 60000 \div LastCall.position
        /\ [Self EXCEPT !.timer.interval = 0]
               = [LastCall.before EXCEPT !.timer.interval = 0]

\* the tempo of a running engine with the playhead on step 5 was changed
\* from 120 to 59
C25_SlowedDownWhilePlaying ==
    /\ calls # <<>>
    /\ LastCall.name = "change_tempo"
    /\ LastCall.position = 59
    /\ LastCall.before.timer.interval = 500
    /\ timer = [interval |-> 1016, active |-> TRUE]
    /\ current_step_number = 5

\* the steps of a part whose override store() takes to be one
OverriddenSteps(e, part_number) ==
    {step_number \in 1..e.step_count :
        Truthy(get_overridden_values(e.steps[part_number][step_number]))}

\* the parts for which a set of steps is not empty
PartNames(step_sets) ==
    {PartName(part_number) :
        part_number \in {n \in part_numbers : step_sets[n] # {}}}

\* C22: store() has 'enabled-steps' exactly when some step is checked, and
\* under it 'part<N>' exactly for the parts with a checked step, holding the
\* ascending list of the part's checked steps; it has 'overridden-controls'
\* exactly when some step has a non-empty override, and under it 'part<N>'
\* exactly for the parts with one, holding these steps and their overrides.
C22_StoredDocumentShape ==
    LET d == Parts_store(Self)
        enabled == [n \in part_numbers |-> EnabledSteps(Self, n)]
        overridden == [n \in part_numbers |-> OverriddenSteps(Self, n)]
    IN /\ "enabled-steps" \in DOMAIN d <=> PartNames(enabled) # {}
       /\ "enabled-steps" \in DOMAIN d =>
             /\ DOMAIN d["enabled-steps"] = PartNames(enabled)
             /\ \A n \in part_numbers :
                   enabled[n] # {} =>
                     LET list == d["enabled-steps"][PartName(n)]
                     IN /\ Elements(list) = enabled[n]
                        /\ \A i, j \in DOMAIN list : i < j => list[i] < list[j]
       /\ "overridden-controls" \in DOMAIN d <=> PartNames(overridden) # {}
       /\ "overridden-controls" \in DOMAIN d =>
             /\ DOMAIN d["overridden-controls"] = PartNames(overridden)
             /\ \A n \in part_numbers :
                   overridden[n] # {} =>
                     LET controls == d["overridden-controls"][PartName(n)]
                     IN /\ DOMAIN controls = {IntKey(step_number) :
                                                step_number \in overridden[n]}
                        /\ \A step_number \in overridden[n] :
                              controls[IntKey(step_number)]
                                = get_overridden_values(steps[n][step_number])

\* the engine restored from a document that lists steps 5 and 1 of part 2 in
\* this order and gives step 2 of part 2 an empty override
C22_StoredAscendingWithoutOverrides ==
    /\ calls # <<>>
    /\ Get(stored_values, "enabled-steps", <<>>) = ("part2" :> <<5, 1>>)
    /\ get_overridden_values(steps[2][2]) = EmptyDict
    /\ Parts_store(Self)["enabled-steps"] = ("part2" :> <<1, 5>>)
    /\ "overridden-controls" \notin DOMAIN Parts_store(Self)

\* the last call is enable_current_step(part) with part in 1..6
Recording ==
    /\ calls # <<>>
    /\ LastCall.name = "enable_current_step"
    /\ LastCall.position \in 1..6

\* C26: enable_current_step(part), part in 1..6, emits one note_on(part) and
\* nothing else; on a stopped engine it changes nothing; on a running engine
\* it checks one step of the part, within 1..step_count, and changes no other
\* step, no override and nothing else.
C26_EnableCurrentStep ==
    Recording =>
        /\ raised = NoException
        /\ emitted = <<note_on(LastCall.position)>>
        /\ [Self EXCEPT !.steps = <<>>] = [LastCall.before EXCEPT !.steps = <<>>]
        /\ ~LastCall.before.timer.active => steps = LastCall.before.steps
        /\ LastCall.before.timer.active =>
              \E step_number \in 1..step_count :
                  steps = [LastCall.before.steps EXCEPT
                              ![LastCall.position][step_number].checked = TRUE]

\* step 16 of part 2, which has an override, was recorded while playing
C26_RecordedOnAnOverriddenStep ==
    /\ Recording
    /\ LastCall.position = 2
    /\ LastCall.before.timer.active
    /\ ~LastCall.before.steps[2][16].checked
    /\ Content(steps[2][16]) = <<TRUE, PayloadB>>
    /\ Content(steps[1][2]) = <<TRUE, PayloadA>>

\* the step before the playhead, the last step when the playhead is on step 1
PreviousStep(e) ==
    IF e.current_step_number = 1 THEN e.step_count ELSE e.current_step_number - 1

\* C27: on a running engine enable_current_step checks the step of the
\* playhead when the remaining time is less than half the interval, and the
\* step before the playhead when it is half the interval or more.
C27_NearestStep ==
    (Recording /\ LastCall.before.timer.active) =>
        LET e == LastCall.before
            step_number == IF 2 * LastCall.count < e.timer.interval
                           THEN e.current_step_number
                           ELSE PreviousStep(e)
        IN steps = [e.steps EXCEPT ![LastCall.position][step_number].checked = TRUE]

\* C29: a tick emits no signal for a part whose check box is unchecked; a
\* click on the check box of a part changes the check box and no step, and
\* two clicks on it leave the engine as it was; store() lists the checked
\* steps and the overrides of every part, its check box checked or not.
C29_UncheckedPartsKeepData ==
    /\ (calls # <<>> /\ LastCall.name = "do_step") =>
          \A i \in DOMAIN emitted :
              LastCall.before.check_box[emitted[i].args[1]]
    /\ (calls # <<>> /\ LastCall.name = "click_check_box") =>
          /\ steps = LastCall.before.steps
          /\ check_box = [LastCall.before.check_box EXCEPT ![LastCall.position] = ~@]
          /\ Len(calls) = 2 => Self = calls[1].before
    /\ \A part_number \in part_numbers :
          /\ EnabledSteps(Self, part_number) # {} =>
                Elements(Parts_store(Self)["enabled-steps"][PartName(part_number)])
                    = EnabledSteps(Self, part_number)
          /\ OverriddenSteps(Self, part_number) # {} =>
                DOMAIN Parts_store(Self)["overridden-controls"][PartName(part_number)]
                    = {IntKey(step_number) :
                          step_number \in OverriddenSteps(Self, part_number)}

\* step 2 was played with part 2 unchecked, whose step 2 is checked and has
\* an override, and with part 1 checked
C29_TickedPastAnUncheckedPart ==
    /\ calls # <<>>
    /\ LastCall.name = "do_step"
    /\ LastCall.before.current_step_number = 2
    /\ ~check_box[2]
    /\ Content(steps[2][2]) = <<TRUE, PayloadB>>
    /\ emitted # <<>>
    /\ Parts_store(Self)["enabled-steps"]["part2"] = <<2>>

\* C28: in every reachable state the override of every step is None or a
\* non-empty payload: an empty payload set on a step, by the host or by
\* restore, leaves the step as a step whose override was cleared.
C28_OverridesNormalized ==
    \A part_number \in part_numbers, step_number \in 1..step_count :
        LET overridden_values == get_overridden_values(steps[part_number][step_number])
        IN overridden_values = None \/ Truthy(overridden_values)

\* C30: after construction, restore, change_step_count, insert_steps and
\* delete_steps every part has the steps 1..step_count, and step s is strong
\* exactly when (s - 1) mod bpm = 0, wherever the checked steps and the
\* overrides were moved.
C30_StrongBeats ==
    \A part_number \in part_numbers :
        /\ DOMAIN steps[part_number] = 1..step_count
        /\ \A step_number \in 1..step_count :
              steps[part_number][step_number].is_strong
                  <=> ((step_number - 1) % bpm = 0)

\* a step was inserted before step 4 of a measure of 3: the checked step with
\* its override is on step 5, which is not strong, and step 4 is strong
C30_ContentMovedOffTheStrongStep ==
    /\ step_count = 17
    /\ bpm = 3
    /\ raised = NoException
    /\ Content(steps[1][5]) = <<TRUE, PayloadA>>
    /\ ~steps[1][5].is_strong
    /\ Content(steps[1][4]) = <<FALSE, None>>
    /\ steps[1][4].is_strong

\* C31: step_at(part, step) raises ValueError exactly when part is outside
\* [1, 6] or step is outside [1, step_count], step_count being the present
\* one, and else returns the step of the part; the call changes nothing.
C31_StepAt ==
    (calls # <<>> /\ LastCall.name = "step_at") =>
        LET part_number == LastCall.position
            step_number == LastCall.count
            in_range == part_number \in 1..6 /\ step_number \in 1..step_count
        IN /\ Self = LastCall.before
           /\ emitted = <<>>
           /\ raised = IF in_range THEN NoException ELSE ValueError
           /\ Parts_step_at(Self, part_number, step_number).returned
                 = IF in_range THEN <<steps[part_number][step_number]>> ELSE <<>>

\* after an insert the host asked for step 17 of part 6, which exists, and
\* for no step beyond
C31_AskedForTheInsertedStep ==
    /\ calls # <<>>
    /\ LastCall.name = "step_at"
    /\ LastCall.position = 6
    /\ LastCall.count = 17
    /\ step_count = 17
    /\ raised = NoException
    /\ Content(steps[1][6]) = <<TRUE, PayloadA>>

\* the places of emitted that hold a step_count_changed
StepCountChanges ==
    {i \in DOMAIN emitted : emitted[i].signal = "step_count_changed"}

\* C33: change_step_count with the present step_count and bpm changes
\* nothing and emits nothing; a call that changes step_count emits one
\* step_count_changed, with the new step_count, and a call that leaves
\* step_count as it was emits none.
C33_StepCountChanged ==
    calls # <<>> =>
        /\ (/\ LastCall.name = "change_step_count"
            /\ LastCall.position = LastCall.before.step_count
            /\ LastCall.count = LastCall.before.bpm) =>
               (Self = LastCall.before /\ emitted = <<>>)
        /\ step_count # LastCall.before.step_count =>
              /\ Cardinality(StepCountChanges) = 1
              /\ \A i \in StepCountChanges : emitted[i].args = <<step_count>>
        /\ step_count = LastCall.before.step_count => StepCountChanges = {}

\* change_step_count changed the measure of a 17-step engine from 4 beats to
\* 3 and emitted nothing
C33_ChangedTheMeasureOnly ==
    /\ calls # <<>>
    /\ LastCall.name = "change_step_count"
    /\ LastCall.before.step_count = 17
    /\ step_count = 17
    /\ LastCall.before.bpm = 4
    /\ bpm = 3
    /\ emitted = <<>>

\* C34: after change_tempo(t) with t in [60, 360] the tempo read back from
\* the interval is t, and store() writes t.
C34_TempoReadBack ==
    (/\ calls # <<>>
     /\ LastCall.name = "change_tempo"
     /\ LastCall.position \in min_stored_tempo .. max_stored_tempo
     /\ raised = NoException) =>
        /\ tempo(Self) = LastCall.position
        /\ Parts_store(Self)["tempo"] = LastCall.position

\* C35: a delete_steps call that raises leaves step_count, every cell, the
\* current step and the timer as they were before the call.
C35_DeleteAtomic ==
    (/\ calls # <<>>
     /\ LastCall.name = "delete_steps"
     /\ raised # NoException) =>
        Self = LastCall.before

\* C36: an insert_steps call that would bring step_count above 1024 raises
\* ValueError and leaves step_count, every cell, the current step and the
\* timer as they were before the call.
C36_InsertAtomic ==
    (/\ calls # <<>>
     /\ LastCall.name = "insert_steps"
     /\ LastCall.before.step_count + LastCall.count > max_step_count) =>
        /\ raised = ValueError
        /\ emitted = <<>>
        /\ Self = LastCall.before

\* two steps were asked for after the last step of a playing engine of 1023
\* steps, and the call failed
C36_AskedForTwoStepsAtTheEnd ==
    /\ calls # <<>>
    /\ LastCall.name = "insert_steps"
    /\ LastCall.before.step_count = max_step_count - 1
    /\ LastCall.before.timer.active
    /\ LastCall.position = max_step_count - 1
    /\ LastCall.count = 2
    /\ raised = ValueError

\* C37: a delete_steps(first_index, count) with first_index in
\* [1, step_count] and count in [1, 128] that returns, whether or not the
\* block ends within the grid, leaves every cell before first_index in the
\* grid with its enabled flag and its override.
C37_DeleteKeepsTheStepsBefore ==
    [][(/\ Calls("delete_steps")
        /\ Called.position \in 1..step_count
        /\ Called.count \in 1..max_dialog_count
        /\ raised' = NoException)
          => \A part_number \in part_numbers :
                \A s \in 1..(Called.position - 1) :
                    /\ s \in DOMAIN steps'[part_number]
                    /\ Content(steps'[part_number][s]) = Content(steps[part_number][s])]_vars

\* what a document lists for a part under 'enabled-steps'
ListedSteps(d, part_number) ==
    Elements(Get(Get(d, "enabled-steps", <<>>), PartName(part_number), <<>>))

\* what a document holds for a part under 'overridden-controls'
ListedControls(d, part_number) ==
    Get(Get(d, "overridden-controls", <<>>), PartName(part_number), <<>>)

\* the document lists a step greater than its 'step-count'
BeyondTheGrid(d) ==
    \E part_number \in part_numbers :
        \/ \E step_number \in ListedSteps(d, part_number) :
              step_number > d["step-count"]
        \/ \E key \in DOMAIN ListedControls(d, part_number) :
              int(key) > d["step-count"]

\* C38: restore of a document that lists, under 'enabled-steps' or
\* 'overridden-controls', a step greater than its 'step-count' returns an
\* engine of 'step-count' steps in which every listed step within the grid
\* is enabled and carries its listed override, and no other step does.
C38_RestoreSkipsBeyondTheGrid ==
    (calls # <<>> /\ BeyondTheGrid(stored_values)) =>
        /\ raised = NoException
        /\ step_count = stored_values["step-count"]
        /\ \A part_number \in part_numbers :
              /\ EnabledSteps(Self, part_number)
                    = {step_number \in ListedSteps(stored_values, part_number) :
                          step_number <= step_count}
              /\ \A step_number \in 1..step_count :
                    LET listed == ListedControls(stored_values, part_number)
                        keys == {key \in DOMAIN listed : int(key) = step_number}
                    IN get_overridden_values(steps[part_number][step_number])
                         = IF keys = {} THEN None
                           ELSE listed[CHOOSE key \in keys : TRUE]

\* the document of 16 steps listed steps 2 and 17 of part 3 and overrides of
\* steps 1 and 16 of part 1: step 2 is enabled, step 16 carries its override
C38_RestoredWithoutStepSeventeen ==
    /\ calls # <<>>
    /\ stored_values["step-count"] = 16
    /\ ListedSteps(stored_values, 3) = {2, 17}
    /\ DOMAIN ListedControls(stored_values, 1) = {IntKey(1), IntKey(16)}
    /\ raised = NoException
    /\ EnabledSteps(Self, 3) = {2}
    /\ get_overridden_values(steps[1][16]) = PayloadB

\* C39: whatever Timeline.restore calls were made, with or without
\* 'step-count' in the document, Timeline.note_on forwards each note_on of
\* the engine once.
C39_SingleForwarding ==
    Timeline_note_on(emitted, connections) = Timeline_note_on(emitted, 1)

\* the valueChanged signals of the last call
ValueChanges ==
    {i \in DOMAIN emitted : emitted[i].signal = "valueChanged"}

\* C32: _restore_control(control, v, is_overridden, force) emits valueChanged
\* once, with v, when force is true, whether or not v is the value of the
\* control; when force is false it emits it once when v differs from the
\* value of the control and not at all when v equals it.
C32_RestoreNotifies ==
    (calls # <<>> /\ LastCall.name = "_restore_control") =>
        /\ Cardinality(ValueChanges)
             = IF LastCall.force \/ LastCall.value # LastCall.before.value
               THEN 1 ELSE 0
        /\ \A i \in ValueChanges : emitted[i] = valueChanged(LastCall.value)
        /\ control.value = LastCall.value

\* the control was restored by force to the value 64 it had, and emitted
\* valueChanged(64) once
C32_ForcedTheSameValue ==
    /\ calls # <<>>
    /\ LastCall.name = "_restore_control"
    /\ LastCall.force
    /\ LastCall.value = 64
    /\ LastCall.before.value = 64
    /\ Cardinality(ValueChanges) = 1

\* the three checked ids of a control
Selections(c) == <<c.sound_source, c.pitch_modulator, c.amplitude_envelope_generator>>

\* C40: for each of the 45 combinations of sound source, pitch modulator and
\* envelope generator, of index i = 9*src + 3*mod + eg, the normalized
\* combination index v lies in [0, 127], v * 44 div 127 is i, and setValue(v)
\* checks the same three buttons; a click that changes a row leaves the
\* control with the clicked button checked, the other rows as they were and
\* the value of that combination.
C40_SelectRoundTrip ==
    /\ \A src \in ButtonIds("sound_source"), mod \in ButtonIds("pitch_modulator"),
          eg \in ButtonIds("amplitude_envelope_generator") :
          LET c == [SelectControl_init EXCEPT !.sound_source = src,
                                              !.pitch_modulator = mod,
                                              !.amplitude_envelope_generator = eg]
              v == normalized_combination_index(c)
              other == [SelectControl_init EXCEPT !.value = (v + 1) % 128]
          IN /\ v \in 0..127
             /\ (v * max_combination_count_index) \div 127 = 9 * src + 3 * mod + eg
             /\ Selections(SelectControl_setValue(other, v).self) = <<src, mod, eg>>
    /\ (/\ calls # <<>>
        /\ LastCall.name = "click"
        /\ LastCall.before[LastCall.row] # LastCall.id) =>
           /\ Selections(control)
                = Selections([LastCall.before EXCEPT ![LastCall.row] = LastCall.id])
           /\ control.value \in 0..127
           /\ control.value = normalized_combination_index(control)
           /\ emitted[1] = valueChanged(control.value)

\* the user checked the last button of each row: the value is 127
C40_ClickedTheLastCombination ==
    /\ calls # <<>>
    /\ LastCall.name = "click"
    /\ LastCall.before[LastCall.row] # LastCall.id
    /\ Selections(control) = <<4, 2, 2>>
    /\ control.value = 127

====
